---- MODULE Spec2Model ----
(***************************************************************************)
(* Model of the SentrySearch hybrid-search edge worker (src/worker.js).    *)
(*                                                                         *)
(* One request at a time travels through handleRequest: it is routed, its  *)
(* body is validated, the vector and keyword branches of every query run   *)
(* (in any order, each one atomically), the per-query results are merged   *)
(* by combineSearchResults, and the response is built.                     *)
(*                                                                         *)
(* Strings that the code takes apart (query texts) are sequences of        *)
(* one-character strings.  Scores and weights are floats in the code; the  *)
(* model keeps them as integers scaled by 10 (0.6 is 6, a cosine           *)
(* similarity of -0.2 is -2), so a hybridScore is scaled by 100.           *)
(***************************************************************************)
EXTENDS Integers, Sequences, FiniteSets, TLC

(***************************************************************************)
(* Bounds of the model.                                                    *)
(***************************************************************************)
\* longest `queries` array of a /hybrid-search request
MaxQueries == 2

\* longest query string handed to tokenizeQuery on its own
MaxQueryLen == 4

\* most lines of a dataset file given to the validation
MaxLines == 4

\* most remaining lines of a file given to the resumable upload
MaxEntries == 27

\* longest target name typed into the generation form
MaxNameLen == 2

\* how far below zero the quality scores rendered go, and the highest one,
\* in hundredths
MaxBelowZero == 20
MaxScore == 520

(***************************************************************************)
(* Generic helpers.                                                        *)
(***************************************************************************)
Min(a, b) == IF a <= b THEN a ELSE b

\* Math.max
Max(a, b) == IF a >= b THEN a ELSE b

Range(s) == {s[i] : i \in 1..Len(s)}

\* Array.prototype.slice(0, n) for n >= 0
Slice(s, n) == SubSeq(s, 1, Min(n, Len(s)))

\* Array.prototype.includes
Includes(s, x) == \E i \in 1..Len(s) : s[i] = x

RECURSIVE SumSeq(_)
SumSeq(s) == IF s = <<>> THEN 0 ELSE Head(s) + SumSeq(Tail(s))

RECURSIVE Flatten(_)
Flatten(ss) == IF ss = <<>> THEN <<>> ELSE Head(ss) \o Flatten(Tail(ss))

\* [...new Set(s)]: first occurrences, in order
RECURSIVE Dedup(_)
Dedup(s) ==
    IF s = <<>> THEN <<>>
    ELSE LET front == Dedup(SubSeq(s, 1, Len(s) - 1))
             last  == s[Len(s)]
         IN  IF Includes(front, last) THEN front ELSE Append(front, last)

(***************************************************************************)
(* JavaScript values of the request body fields the handlers test with     *)
(* `!x`, `.length` and `.map`.                                             *)
(***************************************************************************)
JSUndefined == [t |-> "undefined", v |-> <<>>]
JSNull      == [t |-> "null", v |-> <<>>]
JSObject    == [t |-> "obj", v |-> <<>>]
Str(chars)  == [t |-> "str", v |-> chars]
Num(n)      == [t |-> "num", v |-> <<n>>]
Arr(elems)  == [t |-> "arr", v |-> elems]

\* the value of `!x` is ~Truthy(x)
Truthy(x) ==
    CASE x.t = "undefined" -> FALSE
      [] x.t = "null"      -> FALSE
      [] x.t = "str"       -> x.v # <<>>
      [] x.t = "num"       -> x.v # <<0>>
      [] OTHER             -> TRUE

(***************************************************************************)
(* tokenizeQuery.                                                          *)
(***************************************************************************)
LowerChars == {"t", "a", "b", "c", "d"}
DigitChars == {"1"}
SpaceChars == {" "}

\* String.prototype.toLowerCase, one character
ToLowerChar(c) ==
    CASE c = "T" -> "t"
      [] c = "A" -> "a"
      [] c = "B" -> "b"
      [] OTHER   -> c

\* .replace(/[^a-z0-9\s_]/g, ' '), one character
ReplaceChar(c) ==
    IF c \in LowerChars \cup DigitChars \cup SpaceChars \cup {"_"} THEN c ELSE " "

\* .split(/\s+/): the pieces between whitespace runs, empty pieces included
RECURSIVE SplitWs(_, _, _)
SplitWs(chars, cur, inWs) ==
    IF chars = <<>> THEN <<cur>>
    ELSE IF Head(chars) \in SpaceChars
         THEN IF inWs THEN SplitWs(Tail(chars), cur, TRUE)
                      ELSE <<cur>> \o SplitWs(Tail(chars), <<>>, TRUE)
         ELSE SplitWs(Tail(chars), Append(cur, Head(chars)), FALSE)

tokenizeQueryMinLen == 2

\* a variant of tokenizeQuery that keeps every non-empty piece
M_tokenizeQuery_KeepShort(chars) ==
    IF chars = <<>> THEN <<>>
    ELSE LET lowered == [i \in 1..Len(chars) |-> ReplaceChar(ToLowerChar(chars[i]))]
             pieces  == SplitWs(lowered, <<>>, FALSE)
         IN  SelectSeq(pieces, LAMBDA tok : Len(tok) >= 1)

\* tokenizeQuery of a string (worker.js 484-494); the caller handles
\* non-strings
tokenizeQuery(chars) ==
    IF chars = <<>> THEN <<>>
    ELSE LET lowered == [i \in 1..Len(chars) |-> ReplaceChar(ToLowerChar(chars[i]))]
             pieces  == SplitWs(lowered, <<>>, FALSE)
         IN  SelectSeq(pieces, LAMBDA tok : Len(tok) >= tokenizeQueryMinLen)

\* does tokenizeQuery(query) throw?  A truthy non-string has no toLowerCase.
tokenizeThrows(q) == Truthy(q) /\ q.t # "str"

\* a variant of queryTermsOf that works on the distinct tokens
M_queryTermsOf_Distinct(q) ==
    IF Truthy(q) /\ q.t = "str" THEN Dedup(tokenizeQuery(q.v)) ELSE <<>>

\* worker.js 366: the terms performKeywordSearch works on (none when
\* tokenizeQuery throws: the catch of performKeywordSearch returns [])
queryTermsOf(q) == IF Truthy(q) /\ q.t = "str" THEN tokenizeQuery(q.v) ELSE <<>>

(***************************************************************************)
(* The key-value store (env.SENTRY_KV) the worker reads.  Its content is   *)
(* loaded offline and never written by the worker.  "" stands for an       *)
(* absent (undefined) string field.  A get that throws is caught by its    *)
(* caller and answered like a key that is not there (null, {} or empty     *)
(* content), so a failing store behaves as one with keys missing: term tc  *)
(* and document Z are missing here.                                        *)
(***************************************************************************)
T_ta == <<"t", "a">>
T_tb == <<"t", "b">>
T_tc == <<"t", "c">>
T_td == <<"t", "d">>

EmptyMetadata == [company |-> "", year |-> "", ml_techniques |-> <<>>]

\* env.SENTRY_KV.get(`bm25:term:${term}`, 'json'); found = FALSE is null.
\* A posting names its chunk in chunkId or in chunk_id.
KVTermData(term) ==
    CASE term = T_ta ->
           [found |-> TRUE,
            postingsList |-> <<[chunkId |-> "X", chunk_id |-> "", score |-> 12]>>]
      [] term = T_tb ->
           [found |-> TRUE,
            postingsList |-> <<[chunkId |-> "X", chunk_id |-> "", score |-> 8],
                               [chunkId |-> "Y", chunk_id |-> "", score |-> 20]>>]
      [] term = T_td ->
           [found |-> TRUE,
            postingsList |-> <<[chunkId |-> "", chunk_id |-> "Z", score |-> 5],
                               [chunkId |-> "", chunk_id |-> "", score |-> 7],
                               [chunkId |-> "Y", chunk_id |-> "", score |-> 3]>>]
      [] OTHER -> [found |-> FALSE, postingsList |-> <<>>]

\* env.SENTRY_KV.get(`doc:${chunkId}`, 'json'); found = FALSE is null
KVDocData(chunkId) ==
    CASE chunkId = "X" ->
           [found |-> TRUE, content |-> "content-X", enrichedContent |-> "enriched-X",
            metadata |-> [company |-> "Netflix", year |-> "2019",
                          ml_techniques |-> <<"anomaly">>]]
      [] chunkId = "Y" ->
           [found |-> TRUE, content |-> "content-Y", enrichedContent |-> "",
            metadata |-> [company |-> "Uber", year |-> "",
                          ml_techniques |-> <<>>]]
      [] OTHER ->
           [found |-> FALSE, content |-> "", enrichedContent |-> "",
            metadata |-> EmptyMetadata]

\* getBM25ScoresForTerm (worker.js 499-507)
getBM25ScoresForTerm(term) == KVTermData(term)

\* getDocumentMetadata (worker.js 512-520): docData?.metadata || {}
getDocumentMetadata(chunkId) ==
    IF KVDocData(chunkId).found THEN KVDocData(chunkId).metadata ELSE EmptyMetadata

\* getDocumentContent (worker.js 525-539)
getDocumentContent(chunkId) ==
    [content         |-> KVDocData(chunkId).content,
     enrichedContent |-> KVDocData(chunkId).enrichedContent,
     metadata        |-> getDocumentMetadata(chunkId)]

(***************************************************************************)
(* Facet filters.  A facet that is absent and a facet that is an empty     *)
(* list behave alike in passesFilters and buildPineconeFilter, so both are *)
(* the empty sequence here.                                                *)
(***************************************************************************)
NoFilters == [companies |-> <<>>, years |-> <<>>, techniques |-> <<>>]

\* `filters && Object.keys(filters).length > 0`
ActiveFilters(filters) ==
    filters.companies # <<>> \/ filters.years # <<>> \/ filters.techniques # <<>>

\* passesFilters (worker.js 544-565)
passesFilters(metadata, filters) ==
    /\ filters.companies # <<>> => Includes(filters.companies, metadata.company)
    /\ filters.years # <<>> => Includes(filters.years, metadata.year)
    /\ filters.techniques # <<>> =>
          \E i \in 1..Len(filters.techniques) :
              Includes(metadata.ml_techniques, filters.techniques[i])

(***************************************************************************)
(* performKeywordSearch.                                                   *)
(***************************************************************************)
\* posting.chunkId || posting.chunk_id
PostingChunkId(posting) ==
    IF posting.chunkId # "" THEN posting.chunkId ELSE posting.chunk_id

\* the postings in the order the two nested loops visit them
\* (worker.js 377-382): terms with no termData or no postingsList are skipped
ScanOrder(queryTerms) ==
    Flatten([i \in 1..Len(queryTerms) |->
               IF getBM25ScoresForTerm(queryTerms[i]).found
               THEN getBM25ScoresForTerm(queryTerms[i]).postingsList
               ELSE <<>>])

\* documentScores is a Map: a sequence of entries in insertion order
MapHas(map, chunkId) == \E i \in 1..Len(map) : map[i].chunkId = chunkId

MapIndex(map, chunkId) == CHOOSE i \in 1..Len(map) : map[i].chunkId = chunkId

\* a variant of AccumulateScore that overwrites the score instead of adding
M_AccumulateScore_Overwrite(documentScores, chunkId, score) ==
    IF MapHas(documentScores, chunkId)
    THEN LET i == MapIndex(documentScores, chunkId)
         IN  [documentScores EXCEPT ![i].score = score]
    ELSE Append(documentScores, [chunkId |-> chunkId, score |-> score])

\* worker.js 400-404
AccumulateScore(documentScores, chunkId, score) ==
    IF MapHas(documentScores, chunkId)
    THEN LET i == MapIndex(documentScores, chunkId)
         IN  [documentScores EXCEPT ![i].score = @ + score]
    ELSE Append(documentScores, [chunkId |-> chunkId, score |-> score])

\* a variant of ScanPostings that checks the filters at every posting
RECURSIVE M_ScanPostings_CheckEvery(_, _, _, _)
M_ScanPostings_CheckEvery(postings, documentScores, documentMetadata, filters) ==
    IF postings = <<>> THEN documentScores
    ELSE LET posting == Head(postings)
             chunkId == PostingChunkId(posting)
             skipped == /\ ActiveFilters(filters)
                        /\ ~passesFilters(getDocumentMetadata(chunkId), filters)
         IN  M_ScanPostings_CheckEvery(Tail(postings),
                          IF skipped THEN documentScores
                          ELSE AccumulateScore(documentScores, chunkId, posting.score),
                          documentMetadata \cup {chunkId},
                          filters)

\* the body of the posting loop (worker.js 382-405); documentMetadata is the
\* set of chunk ids whose metadata is cached
RECURSIVE ScanPostings(_, _, _, _)
ScanPostings(postings, documentScores, documentMetadata, filters) ==
    IF postings = <<>> THEN documentScores
    ELSE LET posting   == Head(postings)
             chunkId   == PostingChunkId(posting)
             firstSeen == chunkId \notin documentMetadata
             skipped   == /\ firstSeen
                          /\ ActiveFilters(filters)
                          /\ ~passesFilters(getDocumentMetadata(chunkId), filters)
         IN  ScanPostings(Tail(postings),
                          IF skipped THEN documentScores
                          ELSE AccumulateScore(documentScores, chunkId, posting.score),
                          documentMetadata \cup {chunkId},
                          filters)

\* Array.prototype.sort((a, b) => key(b) - key(a)) is stable and descending.
\* InsertDesc puts index i into a list of indices sorted by keys, after every
\* index whose key is at least keys[i].
RECURSIVE InsertDesc(_, _, _)
InsertDesc(sortedIdx, i, keys) ==
    IF sortedIdx = <<>> THEN <<i>>
    ELSE IF keys[Head(sortedIdx)] >= keys[i]
         THEN <<Head(sortedIdx)>> \o InsertDesc(Tail(sortedIdx), i, keys)
         ELSE <<i>> \o sortedIdx

RECURSIVE SortedIndices(_, _)
SortedIndices(n, keys) ==
    IF n = 0 THEN <<>> ELSE InsertDesc(SortedIndices(n - 1, keys), n, keys)

\* items sorted by descending keys[i], ties in their original order
SortDesc(items, keys) ==
    LET idx == SortedIndices(Len(items), keys)
    IN  [k \in 1..Len(items) |-> items[idx[k]]]

\* performKeywordSearch (worker.js 363-434) of a query value
performKeywordSearch(query, maxResults, filters) ==
    IF tokenizeThrows(query) THEN <<>>
    ELSE LET queryTerms     == queryTermsOf(query)
             documentScores == ScanPostings(ScanOrder(queryTerms), <<>>, {}, filters)
             results == [i \in 1..Len(documentScores) |->
                           [chunkId      |-> documentScores[i].chunkId,
                            score        |-> documentScores[i].score,
                            metadata     |-> getDocumentMetadata(documentScores[i].chunkId),
                            method       |-> "keyword",
                            matchedTerms |-> queryTerms]]
             valid   == SelectSeq(results, LAMBDA r : r.chunkId # "")
         IN  Slice(SortDesc(valid, [i \in 1..Len(valid) |-> valid[i].score]), maxResults)

(***************************************************************************)
(* Query texts used by the requests of the model.                          *)
(***************************************************************************)
S_ta    == <<"t", "a">>
S_tb    == <<"t", "b">>
S_td    == <<"t", "d">>
S_a     == <<"a">>
S_tatb  == <<"t", "a", " ", "t", "b">>
S_tbta  == <<"t", "b", " ", "t", "a">>
S_tata  == <<"t", "a", " ", "t", "a">>
S_tctatb == <<"t", "c", " ", "t", "a", " ", "t", "b">>
S_punct == <<" ", "T", "a", ",", "t", "B", "!", " ", "b">>

(***************************************************************************)
(* performVectorSearch.  The embeddings API and the vector-search API are  *)
(* external: each call ends in one of the outcomes below, chosen by the    *)
(* environment.  The index holds three vectors; PineconeRanking is the     *)
(* index's similarity ranking for a query text (cosine similarity, which   *)
(* can be negative), best match first.                                     *)
(***************************************************************************)
VectorOutcomes ==
    {"ok", "embed_not_ok", "embed_bad_format", "embed_throws",
     "pinecone_not_ok", "pinecone_throws"}

EmbedFailures == {"embed_not_ok", "embed_bad_format", "embed_throws"}

\* generateQueryEmbedding (worker.js 440-479) returns null on every failure
generateQueryEmbedding(outcome) ==
    IF outcome \in EmbedFailures THEN "null" ELSE "embedding"

PineconeMetadata(id) ==
    CASE id = "X" -> [company |-> "Netflix", year |-> "2019",
                      ml_techniques |-> <<"anomaly">>]
      [] id = "Y" -> [company |-> "Uber", year |-> "2020",
                      ml_techniques |-> <<"ranking">>]
      [] OTHER    -> [company |-> "Meta", year |-> "2021",
                      ml_techniques |-> <<>>]

PineconeRanking(query) ==
    CASE query = Str(S_ta)   -> <<[id |-> "X", score |-> 9], [id |-> "Z", score |-> 4]>>
      [] query = Str(S_tb)   -> <<[id |-> "Y", score |-> 5], [id |-> "X", score |-> 1]>>
      [] query = Str(S_tatb) -> <<[id |-> "Y", score |-> 6], [id |-> "Z", score |-> 3],
                                  [id |-> "X", score |-> -2]>>
      [] query = Str(S_td)   -> <<[id |-> "Z", score |-> 8]>>
      [] OTHER               -> <<>>

\* buildPineconeFilter (worker.js 570-586): one $in predicate per facet given
buildPineconeFilter(filters) == filters

\* the vector-search API's answer to a query: the topK best matches whose
\* metadata satisfy the $in predicates
PineconeQuery(query, topK, filter) ==
    LET matching == SelectSeq(PineconeRanking(query),
                              LAMBDA m : passesFilters(PineconeMetadata(m.id), filter))
    IN  [i \in 1..Min(topK, Len(matching)) |->
            [id |-> matching[i].id, score |-> matching[i].score,
             metadata |-> PineconeMetadata(matching[i].id)]]

\* how an async function ends: it returns a value or it throws
Returned(results) == [threw |-> FALSE, results |-> results]
Thrown == [threw |-> TRUE, results |-> <<>>]

\* performVectorSearch (worker.js 300-358)
\* a variant of performVectorSearch whose catch is missing for the
\* vector-search API call: a non-success answer or a failed fetch is thrown on
M_performVectorSearch_NoCatch(query, maxResults, filters, outcome) ==
    IF generateQueryEmbedding(outcome) = "null" THEN Returned(<<>>)
    ELSE IF outcome # "ok" THEN Thrown
    ELSE Returned(<<>>)

\* threw = TRUE would be a rejected promise; the catch-all of the function
\* turns every failure into an empty list
performVectorSearch(query, maxResults, filters, outcome) ==
    IF generateQueryEmbedding(outcome) = "null" THEN Returned(<<>>)
    ELSE IF outcome # "ok" THEN Returned(<<>>)
    ELSE LET matches == PineconeQuery(query, maxResults,
                            IF ActiveFilters(filters) THEN buildPineconeFilter(filters)
                            ELSE NoFilters)
         IN  Returned([i \in 1..Len(matches) |->
                [chunkId      |-> matches[i].id,
                 score        |-> matches[i].score,
                 metadata     |-> matches[i].metadata,
                 method       |-> "vector",
                 matchedTerms |-> <<>>]])

(***************************************************************************)
(* combineSearchResults.                                                   *)
(***************************************************************************)
\* formatMetadata (worker.js 691-702), on the fields the model keeps
formatMetadata(metadata) ==
    [company      |-> metadata.company,
     year         |-> metadata.year,
     mlTechniques |-> metadata.ml_techniques]

\* { ...a, ...b }
Spread(a, b) ==
    [f \in DOMAIN a \cup DOMAIN b |-> IF f \in DOMAIN b THEN b[f] ELSE a[f]]

\* worker.js 599-621: one vector result into the Map
AddVectorResult(combined, result) ==
    IF MapHas(combined, result.chunkId)
    THEN LET i == MapIndex(combined, result.chunkId)
         IN  [combined EXCEPT
                ![i].scores.vectorScore = Max(@, result.score),
                ![i].retrievalMethod = "hybrid"]
    ELSE Append(combined,
                [chunkId         |-> result.chunkId,
                 content         |-> "",
                 enrichedContent |-> "",
                 metadata        |-> formatMetadata(result.metadata),
                 scores          |-> [vectorScore |-> result.score, keywordScore |-> 0,
                                      hybridScore |-> 0, applicabilityScore |-> 0],
                 retrievalMethod |-> "vector",
                 matchedTerms    |-> <<>>])

\* worker.js 624-647: one keyword result into the Map
AddKeywordResult(combined, result) ==
    IF MapHas(combined, result.chunkId)
    THEN LET i == MapIndex(combined, result.chunkId)
         IN  [combined EXCEPT
                ![i].scores.keywordScore = Max(@, result.score),
                ![i].retrievalMethod = "hybrid",
                ![i].matchedTerms = Dedup(@ \o result.matchedTerms)]
    ELSE Append(combined,
                [chunkId         |-> result.chunkId,
                 content         |-> "",
                 enrichedContent |-> "",
                 metadata        |-> formatMetadata(result.metadata),
                 scores          |-> [vectorScore |-> 0, keywordScore |-> result.score,
                                      hybridScore |-> 0, applicabilityScore |-> 0],
                 retrievalMethod |-> "keyword",
                 matchedTerms    |-> result.matchedTerms])

RECURSIVE AddVectorResults(_, _)
AddVectorResults(combined, results) ==
    IF results = <<>> THEN combined
    ELSE AddVectorResults(AddVectorResult(combined, Head(results)), Tail(results))

RECURSIVE AddKeywordResults(_, _)
AddKeywordResults(combined, results) ==
    IF results = <<>> THEN combined
    ELSE AddKeywordResults(AddKeywordResult(combined, Head(results)), Tail(results))

\* worker.js 595-648: the merge loop over the per-query results
RECURSIVE MergeQueryResults(_, _)
MergeQueryResults(combined, searchResults) ==
    IF searchResults = <<>> THEN combined
    ELSE MergeQueryResults(
             AddKeywordResults(
                 AddVectorResults(combined, Head(searchResults).vectorResults),
                 Head(searchResults).keywordResults),
             Tail(searchResults))

\* worker.js 650-665: content and metadata from the content store
Hydrate(result) ==
    LET contentData == getDocumentContent(result.chunkId)
    IN  [result EXCEPT
           !.content = contentData.content,
           !.enrichedContent = contentData.enrichedContent,
           !.metadata = Spread(@, formatMetadata(contentData.metadata))]

\* a variant of Score with the two weights exchanged
M_Score_WeightsSwapped(result, hybridWeights) ==
    [result EXCEPT
       !.scores.hybridScore =
           (result.scores.vectorScore * hybridWeights.keyword) +
           (result.scores.keywordScore * hybridWeights.vector),
       !.scores.applicabilityScore =
           IF result.retrievalMethod = "hybrid" THEN 8 ELSE 6]

\* worker.js 670-678
Score(result, hybridWeights) ==
    [result EXCEPT
       !.scores.hybridScore =
           (result.scores.vectorScore * hybridWeights.vector) +
           (result.scores.keywordScore * hybridWeights.keyword),
       !.scores.applicabilityScore =
           IF result.retrievalMethod = "hybrid" THEN 8 ELSE 6]

\* worker.js 592-678: the local `results` of combineSearchResults, every
\* merged chunk hydrated and scored, before the requireBothMethods filter
ScoredResults(searchResults, hybridWeights) ==
    LET merged == MergeQueryResults(<<>>, searchResults)
    IN  [i \in 1..Len(merged) |-> Score(Hydrate(merged[i]), hybridWeights)]

\* a variant of combineSearchResults that never filters by method
M_combineSearchResults_KeepAll(searchResults, hybridWeights, requireBothMethods) ==
    ScoredResults(searchResults, hybridWeights)

\* combineSearchResults (worker.js 591-686)
combineSearchResults(searchResults, hybridWeights, requireBothMethods) ==
    LET results == ScoredResults(searchResults, hybridWeights)
    IN  IF requireBothMethods
        THEN SelectSeq(results, LAMBDA r : r.retrievalMethod = "hybrid")
        ELSE results

(***************************************************************************)
(* Requests.                                                               *)
(***************************************************************************)
SearchPaths == {"/hybrid-search", "/vector-search", "/keyword-search"}
MetadataPaths == {"/metadata/companies", "/metadata/years", "/metadata/techniques"}
Paths == SearchPaths \cup MetadataPaths \cup {"/health", "/other"}
Methods == {"GET", "POST", "OPTIONS"}

DefaultMaxResults == 10
DefaultHybridWeights == [vector |-> 6, keyword |-> 4]

\* a body field that may be absent: set = FALSE is undefined (v is a filler)
Absent == [set |-> FALSE, v |-> 0]
AbsentWeights == [set |-> FALSE, v |-> [vector |-> 0, keyword |-> 0]]
Given(x) == [set |-> TRUE, v |-> x]

MaxResultsOptions == {Absent, Given(1)}
HybridWeightsOptions == {AbsentWeights, Given([vector |-> 5, keyword |-> 5])}
CompanyFilter == [companies |-> <<"Uber">>, years |-> <<>>, techniques |-> <<>>]
FiltersOptions ==
    {NoFilters, CompanyFilter,
     [companies |-> <<>>, years |-> <<"2019">>, techniques |-> <<"anomaly">>]}

\* the query texts of the `queries` arrays
HybridQueryTexts == {S_ta, S_tatb}

QueryArrays ==
    {Arr(<<Num(5)>>)} \cup
    UNION {{Arr(a) : a \in [1..n -> {Str(t) : t \in HybridQueryTexts}]} : n \in 1..MaxQueries}

\* `queries` values that are no non-empty array
BadQueriesValues ==
    {JSUndefined, JSNull, Arr(<<>>), Str(<<>>), Str(S_ta), Num(0), Num(5), JSObject}

SingleQueryTexts == {S_ta, S_tatb, S_tbta, S_tata, S_tctatb, S_td, S_punct, S_a}

QueryValues ==
    {JSUndefined, JSNull, Str(<<>>), Num(0), Num(5)} \cup {Str(t) : t \in SingleQueryTexts}

\* json: "invalid" is a body request.json() rejects, "null" the JSON text null
Body(json, queries, query, maxResults, hybridWeights, filters, requireBothMethods) ==
    [json |-> json, queries |-> queries, query |-> query, maxResults |-> maxResults,
     hybridWeights |-> hybridWeights, filters |-> filters,
     requireBothMethods |-> requireBothMethods]

EmptyBody ==
    Body("object", JSUndefined, JSUndefined, Absent, AbsentWeights, NoFilters, FALSE)

HybridBodies ==
    {Body("object", q, JSUndefined, m, w, f, r) :
        q \in QueryArrays, m \in MaxResultsOptions, w \in HybridWeightsOptions,
        f \in {NoFilters, CompanyFilter}, r \in BOOLEAN}
    \cup {Body("object", q, JSUndefined, Absent, AbsentWeights, NoFilters, FALSE) :
             q \in BadQueriesValues}

SingleBodies ==
    {Body("object", JSUndefined, q, m, AbsentWeights, f, FALSE) :
        q \in QueryValues, m \in MaxResultsOptions, f \in FiltersOptions}

UnparsedBodies == {[EmptyBody EXCEPT !.json = j] : j \in {"invalid", "null"}}

Requests ==
    {[method |-> "POST", path |-> "/hybrid-search", body |-> b] :
        b \in HybridBodies \cup UnparsedBodies}
    \cup {[method |-> "POST", path |-> p, body |-> b] :
             p \in {"/vector-search", "/keyword-search"},
             b \in SingleBodies \cup UnparsedBodies}
    \cup {[method |-> m, path |-> p, body |-> EmptyBody] :
             m \in Methods, p \in Paths}

(***************************************************************************)
(* State.                                                                  *)
(***************************************************************************)
VARIABLES
    pc,              \* "idle", "routing", "searching", "responded"
    request,         \* the request being handled
    queryList,       \* the query values whose searches were started
    vectorStatus,    \* per query: "pending", "skipped", "threw" or how the calls ended
    vectorResults,   \* per query: what performVectorSearch returned
    keywordStatus,   \* per query: "pending", "skipped", "done"
    keywordResults,  \* per query: what performKeywordSearch returned
    kvTermGets,      \* per query: the terms whose posting lists were fetched
    calls,           \* upstream calls made: embeddings API, vector-search API
    mergedResults,   \* /hybrid-search: the merged, scored results
    combinedResults, \* /hybrid-search: what combineSearchResults returned
    response         \* the response returned, status 0 while there is none

workerVars == <<pc, request, queryList, vectorStatus, vectorResults, keywordStatus,
                keywordResults, kvTermGets, calls, mergedResults, combinedResults,
                response>>

\* The other programs of the repository run apart from the worker; each has
\* its own variables and its own specification, and stands still in the
\* specifications of the others.
VARIABLES
    tokQuery,        \* tokenizeQuery on its own: the argument
    tokTokens,       \* what it returned
    tokPc            \* "ready", "returned"

tokVars == <<tokQuery, tokTokens, tokPc>>

VARIABLES
    upPc,            \* upload-kv-data.js: "off", "checks", "files", "exited"
    upEnv,           \* what the script finds: namespace id, wrangler, directory, files
    upFile,          \* index in KV_FILES of the file the loop is at
    totalUploaded,   \* uploadKVData's counters
    totalErrors,
    bulkPuts,        \* the files whose bulk put succeeded
    exitCode         \* the exit status of the process, -1 while it runs

upVars == <<upPc, upEnv, upFile, totalUploaded, totalErrors, bulkPuts, exitCode>>

\* KV_FILES, upload-kv-data.js 16-33
KV_FILES == <<"kv_documents.jsonl", "kv_term_indices.jsonl",
             "kv_company_terms.jsonl", "kv_metadata.jsonl">>

\* how a dataset file is found: readable and accepted by the bulk put, not
\* there, there but unreadable, or refused by the bulk put
FileStates == {"ok", "missing", "unreadable", "put_fails"}

\* the files of a data directory that is not there
NoFiles == [i \in 1..Len(KV_FILES) |-> "missing"]

UpIdle ==
    /\ upPc = "off"
    /\ upEnv = [namespaceId |-> FALSE, wrangler |-> FALSE, dataDir |-> FALSE,
                files |-> NoFiles]
    /\ upFile = 0
    /\ totalUploaded = 0
    /\ totalErrors = 0
    /\ bulkPuts = <<>>
    /\ exitCode = -1

TokIdle == tokQuery = JSUndefined /\ tokTokens = <<>> /\ tokPc = "off"

VARIABLES
    valPc,           \* upload-kv-data.js --validate: "off", "files", "returned"
    valFile,         \* index in KV_FILES of the file the loop is at
    valLines,        \* the lines of the file looked at last, "missing" when not there
    valReports       \* what was printed about that file

valVars == <<valPc, valFile, valLines, valReports>>

ValIdle == valPc = "off" /\ valFile = 0 /\ valLines = <<>> /\ valReports = <<>>

VARIABLES
    rsPc,            \* uploadRemainingEntries: "off", "start", "entry", "batchEnd", "returned"
    rsTask,          \* the remaining lines (their number) and the batch size
    batchStart,      \* the loop variables
    rsI,
    successCount,    \* the counters
    errorCount,
    rsLastPut,       \* the remaining line put into the store last, 0 when none
    rsStopped,       \* the remaining line at which "stopping upload" was first printed
    rsResult         \* what the function returned: "none", "true", "false"

rsVars == <<rsPc, rsTask, batchStart, rsI, successCount, errorCount, rsLastPut,
            rsStopped, rsResult>>

RsIdle ==
    /\ rsPc = "off"
    /\ rsTask = [found |-> FALSE, remaining |-> 0, batchSize |-> 0]
    /\ batchStart = 0
    /\ rsI = 0
    /\ successCount = 0
    /\ errorCount = 0
    /\ rsLastPut = 0
    /\ rsStopped = 0
    /\ rsResult = "none"

VARIABLES
    authLoading,     \* useAuth().loading: the session is still resolving
    authUser,        \* useAuth().user: "none" or the role of the signed-in user
    pathname,        \* the route shown
    guard,           \* the AuthGuard around the page: "none", "required", "optional"
    guardView,       \* what it rendered: "none", "loading", "authRequired", "children"
    navItems,        \* the entries Navigation rendered
    pageContent,     \* what the page of the route rendered
    pendingPush,     \* the route router.push was last called with, "" when done
    mobileMenuOpen   \* Navigation's mobileMenuOpen

feVars == <<authLoading, authUser, pathname, guard, guardView, navItems,
            pageContent, pendingPush, mobileMenuOpen>>

FeIdle ==
    /\ authLoading = TRUE
    /\ authUser = "none"
    /\ pathname = ""
    /\ guard = "none"
    /\ guardView = "none"
    /\ navItems = {}
    /\ pageContent = ""
    /\ pendingPush = ""
    /\ mobileMenuOpen = FALSE

VARIABLES
    formData,        \* GeneratePage: the form's tool_name, enable_ml_guidance, analysis_type
    genStatus,       \* generateMutation: "idle", "pending", "success", "error"
    genInFlight,     \* the create-report requests under way (none or one)
    genFailureCount, \* failed attempts of the mutation under way
    genPush          \* the route router.push was called with, "" when none

genVars == <<formData, genStatus, genInFlight, genFailureCount, genPush>>

GenIdle ==
    /\ formData = [tool_name |-> <<>>, enable_ml_guidance |-> TRUE,
                   analysis_type |-> "comprehensive"]
    /\ genStatus = "off"
    /\ genInFlight = <<>>
    /\ genFailureCount = 0
    /\ genPush = ""

VARIABLES
    apiKey,          \* Settings: the key in the input
    stLoading,       \* loadUserProfile is under way
    saving,          \* saveApiKey is under way
    message,         \* the message shown
    userProfile,     \* the user's row of user_profiles: is there one, and its key
    stUpsert         \* the upserts under way (none or one): the key sent

stVars == <<apiKey, stLoading, saving, message, userProfile, stUpsert>>

StIdle ==
    /\ apiKey = <<>>
    /\ stLoading = FALSE
    /\ saving = FALSE
    /\ message = "off"
    /\ userProfile = [row |-> FALSE, key |-> <<>>]
    /\ stUpsert = <<>>

VARIABLES
    qsPc,            \* quality badges: "off", "ready", "rendered"
    qsScore,         \* the quality_score of the report rendered
    qsBands          \* the band each rendering site selected for it

qsVars == <<qsPc, qsScore, qsBands>>

QsIdle ==
    /\ qsPc = "off"
    /\ qsScore = Num(0)
    /\ qsBands = <<>>

VARIABLES
    tfPc,            \* terraform: "off", "ready", "rejected", "applied"
    tfvars,          \* the input variables set in terraform.tfvars
    tfResources      \* the arguments of the resources applied

tfVars == <<tfPc, tfvars, tfResources>>

TfIdle ==
    /\ tfPc = "off"
    /\ tfvars = <<>>
    /\ tfResources = <<>>

VARIABLES
    dpPc,            \* deploy script: "off", the step it is at, or "exited"
    dpEnv,           \* what the script meets: credentials, terraform.tfvars, the
                     \* key pressed at the prompt, the command that fails
    dpReply,         \* REPLY, the character read at the cost prompt
    dpLog,           \* the steps that ran, in order, and whether each succeeded
    dpExit           \* the exit status, -1 while running

dpVars == <<dpPc, dpEnv, dpReply, dpLog, dpExit>>

DpIdle ==
    /\ dpPc = "off"
    /\ dpEnv = [credentials |-> FALSE, tfvarsFile |-> FALSE, key |-> "eof",
                failing |-> "none"]
    /\ dpReply = ""
    /\ dpLog = <<>>
    /\ dpExit = -1

VARIABLES
    ccPc,            \* concurrent /hybrid-search: "off", "searching", "hydrating",
                     \* "responded"
    ccRequest,       \* the body of the request
    ccAnswers,       \* the answer the vector search of each query gets
    ccInner,         \* per query, the two slots of the Promise.all of its searches
    ccOuter,         \* the slots of the Promise.all over the queries
    ccMerged,        \* the Map of combineSearchResults after the merge loop
    ccContent,       \* the slots of the Promise.all over the content fetches
    ccReordered,     \* a branch completed before one that comes earlier in its array
    ccResponse       \* the response

ccVars == <<ccPc, ccRequest, ccAnswers, ccInner, ccOuter, ccMerged, ccContent,
            ccReordered, ccResponse>>

CcIdle ==
    /\ ccPc = "off"
    /\ ccRequest = <<>>
    /\ ccAnswers = <<>>
    /\ ccInner = <<>>
    /\ ccOuter = <<>>
    /\ ccMerged = <<>>
    /\ ccContent = <<>>
    /\ ccReordered = FALSE
    /\ ccResponse = <<>>

extVars == <<qsVars, tfVars, dpVars, ccVars>>

ExtIdle == QsIdle /\ TfIdle /\ DpIdle /\ CcIdle

otherVars == <<tokVars, upVars, valVars, rsVars, feVars, genVars, stVars, extVars>>

vars == <<workerVars, otherVars>>

NoMetadata ==
    [totalResults |-> 0, vectorResults |-> 0, keywordResults |-> 0, hybridResults |-> 0]

NoResponse ==
    [status |-> 0, error |-> "", cors |-> FALSE, results |-> <<>>,
     metadata |-> NoMetadata]

Response(status, error, cors) ==
    [status |-> status, error |-> error, cors |-> cors, results |-> <<>>,
     metadata |-> NoMetadata]

NoRequest == [method |-> "GET", path |-> "/health", body |-> EmptyBody]

Init ==
    /\ pc = "idle"
    /\ request = NoRequest
    /\ queryList = <<>>
    /\ vectorStatus = <<>>
    /\ vectorResults = <<>>
    /\ keywordStatus = <<>>
    /\ keywordResults = <<>>
    /\ kvTermGets = <<>>
    /\ calls = [embeddings |-> 0, vectorApi |-> 0]
    /\ mergedResults = <<>>
    /\ combinedResults = <<>>
    /\ response = NoResponse
    /\ TokIdle
    /\ UpIdle
    /\ ValIdle
    /\ RsIdle
    /\ FeIdle
    /\ GenIdle
    /\ StIdle
    /\ ExtIdle

searchVars == <<queryList, vectorStatus, vectorResults, keywordStatus,
                keywordResults, kvTermGets, calls, mergedResults, combinedResults>>

\* the destructured body fields with their defaults (worker.js 226-232, 714)
maxResultsOf(body) ==
    IF body.maxResults.set THEN body.maxResults.v ELSE DefaultMaxResults

hybridWeightsOf(body) ==
    IF body.hybridWeights.set THEN body.hybridWeights.v ELSE DefaultHybridWeights

\* request.json() or the destructuring of its result throws
BodyThrows(body) == body.json \in {"invalid", "null"}

\* worker.js 234 and 716, 750: the test that answers 400
FailsValidation(req) ==
    IF req.path = "/hybrid-search"
    THEN LET queries == IF req.body.queries.t = "undefined" THEN Arr(<<>>)
                        ELSE req.body.queries
         IN  ~Truthy(queries) \/ (queries.t \in {"arr", "str"} /\ Len(queries.v) = 0)
    ELSE ~Truthy(req.body.query)

\* worker.js 242: queries.map exists on arrays only
MapThrows(req) == req.path = "/hybrid-search" /\ req.body.queries.t # "arr"

(***************************************************************************)
(* Actions.                                                                *)
(***************************************************************************)
\* fetch (worker.js 13-17): a request arrives; the worker keeps nothing of
\* the request before it
ReceiveRequest ==
    /\ pc = "idle"
    /\ \E req \in Requests : request' = req
    /\ pc' = "routing"
    /\ queryList' = <<>>
    /\ vectorStatus' = <<>>
    /\ vectorResults' = <<>>
    /\ keywordStatus' = <<>>
    /\ keywordResults' = <<>>
    /\ kvTermGets' = <<>>
    /\ calls' = [embeddings |-> 0, vectorApi |-> 0]
    /\ mergedResults' = <<>>
    /\ combinedResults' = <<>>
    /\ response' = NoResponse
    /\ UNCHANGED otherVars

Respond(resp) ==
    /\ response' = resp
    /\ pc' = "responded"
    /\ UNCHANGED request

\* handleRequest, worker.js 31-33
Preflight ==
    /\ pc = "routing"
    /\ request.method = "OPTIONS"
    /\ Respond(Response(200, "", TRUE))
    /\ UNCHANGED searchVars
    /\ UNCHANGED otherVars

\* handleRequest, worker.js 57-61
Health ==
    /\ pc = "routing"
    /\ request.method # "OPTIONS"
    /\ request.path = "/health"
    /\ Respond(Response(200, "", TRUE))
    /\ UNCHANGED searchVars
    /\ UNCHANGED otherVars

\* handleRequest, worker.js 195-196
NotFound ==
    /\ pc = "routing"
    /\ request.method # "OPTIONS"
    /\ request.path \notin SearchPaths \cup MetadataPaths \cup {"/health"}
    /\ Respond(Response(404, "", TRUE))
    /\ UNCHANGED searchVars
    /\ UNCHANGED otherVars

\* handleMetadataCompanies, handleMetadataYears, handleMetadataTechniques
\* (worker.js 775-818): the store answers or its get throws
MetadataRoute ==
    /\ pc = "routing"
    /\ request.method # "OPTIONS"
    /\ request.path \in MetadataPaths
    /\ \E kvAnswers \in BOOLEAN :
          Respond(IF kvAnswers THEN Response(200, "", TRUE)
                  ELSE Response(500, "Failed to get metadata", FALSE))
    /\ UNCHANGED searchVars
    /\ UNCHANGED otherVars

\* worker.js 218-220, 708-710, 742-744
MethodNotAllowed ==
    /\ pc = "routing"
    /\ request.method \notin {"OPTIONS", "POST"}
    /\ request.path \in SearchPaths
    /\ Respond(Response(405, "", FALSE))
    /\ UNCHANGED searchVars
    /\ UNCHANGED otherVars

\* worker.js 234-239, 716-721, 750-755
InvalidRequest ==
    /\ pc = "routing"
    /\ request.method = "POST"
    /\ request.path \in SearchPaths
    /\ ~BodyThrows(request.body)
    /\ FailsValidation(request)
    /\ Respond(Response(400, "INVALID_REQUEST", FALSE))
    /\ UNCHANGED searchVars
    /\ UNCHANGED otherVars

\* worker.js 242 (queries.map starts every per-query search), 723, 757
StartSearch ==
    /\ pc = "routing"
    /\ request.method = "POST"
    /\ request.path \in SearchPaths
    /\ ~BodyThrows(request.body)
    /\ ~FailsValidation(request)
    /\ ~MapThrows(request)
    /\ LET queries == IF request.path = "/hybrid-search" THEN request.body.queries.v
                      ELSE <<request.body.query>>
           n == Len(queries)
       IN  /\ queryList' = queries
           /\ vectorStatus' = [i \in 1..n |->
                 IF request.path = "/keyword-search" THEN "skipped" ELSE "pending"]
           /\ keywordStatus' = [i \in 1..n |->
                 IF request.path = "/vector-search" THEN "skipped" ELSE "pending"]
           /\ vectorResults' = [i \in 1..n |-> <<>>]
           /\ keywordResults' = [i \in 1..n |-> <<>>]
           /\ kvTermGets' = [i \in 1..n |-> <<>>]
    /\ pc' = "searching"
    /\ UNCHANGED <<request, calls, mergedResults, combinedResults, response>>
    /\ UNCHANGED otherVars

\* what the branch remembers of the outcome of its upstream calls
VectorStatusOf(outcome) ==
    CASE outcome = "ok" -> "ok"
      [] outcome \in EmbedFailures -> "embed_failed"
      [] OTHER -> "pinecone_failed"

\* the vector branch of query i runs to its end (performVectorSearch)
VectorSearch(i) ==
    /\ pc = "searching"
    /\ vectorStatus[i] = "pending"
    /\ \E outcome \in VectorOutcomes :
          LET ended == performVectorSearch(queryList[i], maxResultsOf(request.body),
                                           request.body.filters, outcome)
          IN
          /\ vectorStatus' = [vectorStatus EXCEPT ![i] =
                IF ended.threw THEN "threw" ELSE VectorStatusOf(outcome)]
          /\ vectorResults' = [vectorResults EXCEPT ![i] = ended.results]
          /\ calls' = [embeddings |-> calls.embeddings + 1,
                       vectorApi  |-> calls.vectorApi +
                                      (IF outcome \in EmbedFailures THEN 0 ELSE 1)]
    /\ UNCHANGED <<pc, request, queryList, keywordStatus, keywordResults,
                   kvTermGets, mergedResults, combinedResults, response>>
    /\ UNCHANGED otherVars

\* the keyword branch of query i runs to its end (performKeywordSearch)
KeywordSearch(i) ==
    /\ pc = "searching"
    /\ keywordStatus[i] = "pending"
    /\ keywordStatus' = [keywordStatus EXCEPT ![i] = "done"]
    /\ keywordResults' = [keywordResults EXCEPT ![i] =
          performKeywordSearch(queryList[i], maxResultsOf(request.body),
                               request.body.filters)]
    /\ kvTermGets' = [kvTermGets EXCEPT ![i] = queryTermsOf(queryList[i])]
    /\ UNCHANGED <<pc, request, queryList, vectorStatus, vectorResults, calls,
                   mergedResults, combinedResults, response>>
    /\ UNCHANGED otherVars

\* Promise.all rejects when a branch threw
SomeSearchThrew == \E i \in 1..Len(queryList) : vectorStatus[i] = "threw"

AllSearchesDone ==
    \A i \in 1..Len(queryList) :
        vectorStatus[i] # "pending" /\ keywordStatus[i] # "pending"

\* what the try blocks of the search handlers can throw: request.json() or
\* the destructuring of its result, queries.map on a value that is no array,
\* and an awaited search that rejected
ThrownInHandler ==
    \/ /\ pc = "routing"
       /\ request.method = "POST"
       /\ request.path \in SearchPaths
       /\ BodyThrows(request.body) \/ (~FailsValidation(request) /\ MapThrows(request))
    \/ /\ pc = "searching"
       /\ AllSearchesDone
       /\ SomeSearchThrew

\* the catch blocks of the three search handlers (worker.js 271-277,
\* 729-735, 763-769) answer 500 for whatever the try block throws
HandlerThrows ==
    /\ ThrownInHandler
    /\ Respond(Response(500, "SEARCH_FAILED", FALSE))
    /\ UNCHANGED searchVars
    /\ UNCHANGED otherVars

\* the searchResults array Promise.all yields (worker.js 243, 290-294)
SearchResults ==
    [i \in 1..Len(queryList) |->
        [query |-> queryList[i], vectorResults |-> vectorResults[i],
         keywordResults |-> keywordResults[i]]]

CountMethod(results, methods) ==
    Len(SelectSeq(results, LAMBDA r : r.retrievalMethod \in methods))

\* handleHybridSearch, worker.js 245-269
HybridRespond ==
    /\ pc = "searching"
    /\ request.path = "/hybrid-search"
    /\ AllSearchesDone
    /\ ~SomeSearchThrew
    /\ LET weights  == hybridWeightsOf(request.body)
           combined == combineSearchResults(SearchResults, weights,
                                            request.body.requireBothMethods)
           sorted   == SortDesc(combined,
                          [i \in 1..Len(combined) |-> combined[i].scores.hybridScore])
           finalResults == Slice(sorted, maxResultsOf(request.body))
       IN  /\ mergedResults' = ScoredResults(SearchResults, weights)
           /\ combinedResults' = combined
           /\ Respond([status |-> 200, error |-> "", cors |-> TRUE,
                       results |-> finalResults,
                       metadata |->
                         [totalResults   |-> Len(finalResults),
                          vectorResults  |-> CountMethod(combined, {"vector", "hybrid"}),
                          keywordResults |-> CountMethod(combined, {"keyword", "hybrid"}),
                          hybridResults  |-> CountMethod(combined, {"hybrid"})]])
    /\ UNCHANGED <<queryList, vectorStatus, vectorResults, keywordStatus,
                   keywordResults, kvTermGets, calls>>
    /\ UNCHANGED otherVars

\* handleVectorSearch and handleKeywordSearch, worker.js 723-727, 757-761
SingleRespond ==
    /\ pc = "searching"
    /\ request.path \in {"/vector-search", "/keyword-search"}
    /\ AllSearchesDone
    /\ ~SomeSearchThrew
    /\ Respond([status |-> 200, error |-> "", cors |-> TRUE,
                results |-> IF request.path = "/vector-search" THEN vectorResults[1]
                            ELSE keywordResults[1],
                metadata |-> NoMetadata])
    /\ UNCHANGED searchVars
    /\ UNCHANGED otherVars

\* the response is returned and the request's locals are gone
Finish ==
    /\ pc = "responded"
    /\ pc' = "idle"
    /\ request' = NoRequest
    /\ queryList' = <<>>
    /\ vectorStatus' = <<>>
    /\ vectorResults' = <<>>
    /\ keywordStatus' = <<>>
    /\ keywordResults' = <<>>
    /\ kvTermGets' = <<>>
    /\ calls' = [embeddings |-> 0, vectorApi |-> 0]
    /\ mergedResults' = <<>>
    /\ combinedResults' = <<>>
    /\ response' = NoResponse
    /\ UNCHANGED otherVars

Next ==
    \/ ReceiveRequest
    \/ Preflight
    \/ Health
    \/ NotFound
    \/ MetadataRoute
    \/ MethodNotAllowed
    \/ HandlerThrows
    \/ InvalidRequest
    \/ StartSearch
    \/ \E i \in 1..Len(queryList) : VectorSearch(i)
    \/ \E i \in 1..Len(queryList) : KeywordSearch(i)
    \/ HybridRespond
    \/ SingleRespond
    \/ Finish

Spec == Init /\ [][Next]_vars

(***************************************************************************)
(* Properties.                                                             *)
(***************************************************************************)
\* a /hybrid-search request was answered from merged results
HybridAnswered ==
    /\ pc = "responded"
    /\ request.path = "/hybrid-search"
    /\ queryList # <<>>
    /\ response.status = 200

\* the scores of the vector hits, and of the keyword hits, of a chunk over
\* all queries of the request
HitScores(perQuery, chunkId) ==
    UNION {{perQuery[i][k].score :
               k \in {j \in 1..Len(perQuery[i]) : perQuery[i][j].chunkId = chunkId}} :
              i \in 1..Len(perQuery)}

VectorHitScores(chunkId) == HitScores(vectorResults, chunkId)

KeywordHitScores(chunkId) == HitScores(keywordResults, chunkId)

SetMax(S) == CHOOSE x \in S : \A y \in S : y <= x

\* C1: after the merge a chunk is "hybrid" exactly when it has a vector hit
\* and a keyword hit, "vector" when it has only vector hits and "keyword"
\* when it has only keyword hits, however many queries hit it.
C1_MethodTellsWhichKindsHit ==
    HybridAnswered =>
        \A n \in 1..Len(mergedResults) :
            LET r    == mergedResults[n]
                hasV == VectorHitScores(r.chunkId) # {}
                hasK == KeywordHitScores(r.chunkId) # {}
            IN  r.retrievalMethod =
                    IF hasV /\ hasK THEN "hybrid"
                    ELSE IF hasV THEN "vector" ELSE "keyword"

\* C2: a merged chunk's vectorScore is the maximum score of its vector hits
\* over all queries and its keywordScore the maximum score of its keyword
\* hits; a score is 0 when the chunk has no hit of that kind.
C2_ScoresAreMaxOfHits ==
    HybridAnswered =>
        \A n \in 1..Len(mergedResults) :
            LET r  == mergedResults[n]
                vs == VectorHitScores(r.chunkId)
                ks == KeywordHitScores(r.chunkId)
            IN  /\ r.scores.vectorScore = IF vs = {} THEN 0 ELSE SetMax(vs)
                /\ r.scores.keywordScore = IF ks = {} THEN 0 ELSE SetMax(ks)

Reverse(seq) == [i \in 1..Len(seq) |-> seq[Len(seq) + 1 - i]]

\* same chunk ids and, chunk by chunk, the same scores and retrieval method
SameMerge(a, b) ==
    /\ {a[i].chunkId : i \in 1..Len(a)} = {b[i].chunkId : i \in 1..Len(b)}
    /\ \A i \in 1..Len(a) : \A j \in 1..Len(b) :
          a[i].chunkId = b[j].chunkId =>
              /\ a[i].scores.vectorScore = b[j].scores.vectorScore
              /\ a[i].scores.keywordScore = b[j].scores.keywordScore
              /\ a[i].scores.hybridScore = b[j].scores.hybridScore
              /\ a[i].retrievalMethod = b[j].retrievalMethod

\* C3: merging two per-query result sets A and B in the order [B, A] gives
\* the same chunk ids, scores and retrieval methods as in the order [A, B].
C3_MergeCommutes ==
    (HybridAnswered /\ Len(queryList) = 2) =>
        SameMerge(combinedResults,
                  combineSearchResults(Reverse(SearchResults),
                                       hybridWeightsOf(request.body),
                                       request.body.requireBothMethods))

(***************************************************************************)
(* What the posting lists of the store say about a chunk, computed term by *)
(* term and not by the scan of performKeywordSearch.                       *)
(***************************************************************************)
StoreTerms == {T_ta, T_tb, T_tc, T_td}

StoreChunkIds ==
    UNION {{PostingChunkId(KVTermData(t).postingsList[k]) :
               k \in 1..Len(KVTermData(t).postingsList)} : t \in StoreTerms}

\* the scores of the postings of one term that name the chunk
TermPostingScores(term, chunkId) ==
    LET mine == SelectSeq(KVTermData(term).postingsList,
                          LAMBDA p : PostingChunkId(p) = chunkId)
    IN  [k \in 1..Len(mine) |-> mine[k].score]

\* the scores of the chunk's postings under terms[1], terms[2], ...
ChunkPostingScores(terms, chunkId) ==
    Flatten([i \in 1..Len(terms) |-> TermPostingScores(terms[i], chunkId)])

\* keyword branch i has run on a query string
KeywordRan(i) == keywordStatus[i] = "done" /\ queryList[i].t = "str"

\* results holds exactly the maxResults best chunks of `present`, each with
\* its score under Expected
IsTopOf(results, present, Expected(_), maxResults) ==
    /\ Len(results) = Min(maxResults, Cardinality(present))
    /\ Cardinality({results[k].chunkId : k \in 1..Len(results)}) = Len(results)
    /\ \A k \in 1..Len(results) :
          /\ results[k].chunkId \in present
          /\ results[k].score = Expected(results[k].chunkId)
    /\ \A c \in present \ {results[k].chunkId : k \in 1..Len(results)} :
          \A k \in 1..Len(results) : Expected(c) <= results[k].score

\* C4: with no filters, performKeywordSearch scores each chunk with the sum
\* of the scores of its postings over all query terms that have a posting
\* list; a term with no posting list adds nothing and stops nothing.
C4_ScoreIsSumOfPostings ==
    \A i \in 1..Len(queryList) :
        (KeywordRan(i) /\ ~ActiveFilters(request.body.filters)) =>
            LET terms   == tokenizeQuery(queryList[i].v)
                Sum(c)  == SumSeq(ChunkPostingScores(terms, c))
                present == {c \in StoreChunkIds \ {""} :
                               ChunkPostingScores(terms, c) # <<>>}
            IN  IsTopOf(keywordResults[i], present, Sum, maxResultsOf(request.body))

\* a query with a term the store does not know and two terms that both
\* list chunk X: X scores 1.2 + 0.8
W_C4_SumWithMissingTerm ==
    /\ pc = "responded"
    /\ request.path = "/keyword-search"
    /\ ~ActiveFilters(request.body.filters)
    /\ queryList = <<Str(S_tctatb)>>
    /\ ~KVTermData(T_tc).found
    /\ \E k \in 1..Len(response.results) :
          response.results[k].chunkId = "X" /\ response.results[k].score = 20

Count(seq, x) == Cardinality({i \in 1..Len(seq) : seq[i] = x})

\* what the scan keeps of a chunk's postings under active filters: all of
\* them when the chunk's metadata pass, all but the first seen when not
KeptPostingScores(terms, chunkId, filters) ==
    LET all == ChunkPostingScores(terms, chunkId)
    IN  IF ActiveFilters(filters) /\ ~passesFilters(getDocumentMetadata(chunkId), filters)
        THEN (IF all = <<>> THEN <<>> ELSE Tail(all))
        ELSE all

\* C5 as claimed: keyword search works on the distinct tokens of the query;
\* a repeated token is fetched once and changes no chunk's score.
C5_RepeatedTokenCountsOnce ==
    \A i \in 1..Len(queryList) :
        KeywordRan(i) =>
            LET terms    == tokenizeQuery(queryList[i].v)
                distinct == Dedup(terms)
                filters  == request.body.filters
                Kept(c)  == SumSeq(KeptPostingScores(distinct, c, filters))
            IN  /\ Len(kvTermGets[i]) = Len(distinct)
                /\ \A k \in 1..Len(keywordResults[i]) :
                      keywordResults[i][k].score = Kept(keywordResults[i][k].chunkId)

\* C5 as amended: keyword search works on the token list as tokenized,
\* repeats included; a token that occurs n times in the query has its
\* posting list fetched n times and, with no filters, its postings count n
\* times in every chunk's score.
C5_RepeatedTokenCountsEachTime ==
    \A i \in 1..Len(queryList) :
        KeywordRan(i) =>
            LET terms == tokenizeQuery(queryList[i].v)
                distinct == Dedup(terms)
                Weighted(c) ==
                    SumSeq([j \in 1..Len(distinct) |->
                              Count(terms, distinct[j]) *
                              SumSeq(TermPostingScores(distinct[j], c))])
            IN  /\ kvTermGets[i] = terms
                /\ ~ActiveFilters(request.body.filters) =>
                      \A k \in 1..Len(keywordResults[i]) :
                          keywordResults[i][k].score =
                              Weighted(keywordResults[i][k].chunkId)

\* "ta ta": the posting list of ta is fetched twice and X scores 2 * 1.2
W_C5_TokenTwice ==
    /\ pc = "responded"
    /\ request.path = "/keyword-search"
    /\ ~ActiveFilters(request.body.filters)
    /\ queryList = <<Str(S_tata)>>
    /\ kvTermGets = <<<<T_ta, T_ta>>>>
    /\ \E k \in 1..Len(response.results) :
          response.results[k].chunkId = "X" /\ response.results[k].score = 24

\* C6: with active filters a chunk whose metadata fail them loses only its
\* first encountered posting; its later postings in the same query are
\* added unchecked, so it is in the results with the sum of those.
C6_FilterSkipsFirstPostingOnly ==
    \A i \in 1..Len(queryList) :
        (KeywordRan(i) /\ ActiveFilters(request.body.filters)) =>
            LET terms   == tokenizeQuery(queryList[i].v)
                filters == request.body.filters
                Kept(c) == SumSeq(KeptPostingScores(terms, c, filters))
                present == {c \in StoreChunkIds \ {""} :
                               KeptPostingScores(terms, c, filters) # <<>>}
            IN  IsTopOf(keywordResults[i], present, Kept, maxResultsOf(request.body))

\* filter company = Uber, query "ta tb": X (Netflix) is skipped under ta
\* and still returned with its 0.8 from tb
W_C6_FailingChunkReturned ==
    /\ pc = "responded"
    /\ request.path = "/keyword-search"
    /\ request.body.filters = CompanyFilter
    /\ ~passesFilters(getDocumentMetadata("X"), CompanyFilter)
    /\ queryList = <<Str(S_tatb)>>
    /\ \E k \in 1..Len(response.results) :
          response.results[k].chunkId = "X" /\ response.results[k].score = 8

Methods_Of(results) == {results[k].retrievalMethod : k \in 1..Len(results)}

\* C7: with requireBothMethods every result of the response is "hybrid" and
\* a merged "hybrid" result is missing from the response only because of
\* the maxResults truncation; without it no merged result is dropped for
\* its method.
C7_RequireBothMethodsKeepsHybridOnly ==
    HybridAnswered =>
        LET both     == request.body.requireBothMethods
            eligible == IF both
                        THEN SelectSeq(mergedResults,
                                       LAMBDA r : r.retrievalMethod = "hybrid")
                        ELSE mergedResults
            returned == response.results
            left     == {eligible[k] : k \in 1..Len(eligible)} \ Range(returned)
        IN  /\ both => Methods_Of(returned) \subseteq {"hybrid"}
            /\ Range(returned) \subseteq Range(eligible)
            /\ Cardinality(Range(returned)) = Len(returned)
            /\ Len(returned) = Min(maxResultsOf(request.body), Len(eligible))
            /\ \A r \in left : \A k \in 1..Len(returned) :
                  r.scores.hybridScore <= returned[k].scores.hybridScore

\* one vector-only, one keyword-only and one hybrid chunk were merged and
\* requireBothMethods returned exactly the hybrid one
W_C7_OnlyHybridReturned ==
    /\ HybridAnswered
    /\ request.body.requireBothMethods
    /\ Methods_Of(mergedResults) = {"vector", "keyword", "hybrid"}
    /\ Len(mergedResults) = 3
    /\ Len(response.results) = 1
    /\ response.results[1].retrievalMethod = "hybrid"

\* C8: hybridScore = vectorScore * weights.vector + keywordScore *
\* weights.keyword for every merged result, with the caller's hybridWeights,
\* and with 0.6 and 0.4 when the request gives none.
C8_HybridScoreIsWeightedSum ==
    HybridAnswered =>
        LET given == request.body.hybridWeights
            wv    == IF given.set THEN given.v.vector ELSE 6
            wk    == IF given.set THEN given.v.keyword ELSE 4
        IN  \A r \in Range(mergedResults) \cup Range(response.results) :
                r.scores.hybridScore =
                    r.scores.vectorScore * wv + r.scores.keywordScore * wk

\* no hybridWeights in the request; a chunk with vectorScore 0.9 and
\* keywordScore 1.2 has hybridScore 0.6 * 0.9 + 0.4 * 1.2
W_C8_DefaultWeightsUsed ==
    /\ HybridAnswered
    /\ ~request.body.hybridWeights.set
    /\ \E k \in 1..Len(response.results) :
          /\ response.results[k].scores.vectorScore = 9
          /\ response.results[k].scores.keywordScore = 12
          /\ response.results[k].scores.hybridScore = 102

VectorFailed(i) == vectorStatus[i] \in {"embed_failed", "pinecone_failed"}

KeywordHitChunks ==
    UNION {{keywordResults[i][k].chunkId : k \in 1..Len(keywordResults[i])} :
              i \in 1..Len(queryList)}

\* C9: a failed embeddings call or a non-success answer of the vector-search
\* API never fails a /hybrid-search request: the vector branch of that
\* query yields the empty list and the request is answered with success
\* from the keyword results.
C9_VectorFailureDegrades ==
    /\ \A i \in 1..Len(queryList) :
          /\ vectorStatus[i] # "threw"
          /\ VectorFailed(i) => vectorResults[i] = <<>>
    /\ ( /\ pc = "responded"
         /\ request.path = "/hybrid-search"
         /\ \E i \in 1..Len(queryList) : VectorFailed(i) )
       => /\ response.status = 200
          /\ KeywordHitChunks \subseteq
                {mergedResults[k].chunkId : k \in 1..Len(mergedResults)}
          /\ (\A i \in 1..Len(queryList) : VectorFailed(i)) =>
                /\ {mergedResults[k].chunkId : k \in 1..Len(mergedResults)}
                      = KeywordHitChunks
                /\ \A k \in 1..Len(mergedResults) :
                      mergedResults[k].scores.vectorScore = 0

\* the embeddings call of one query failed, the vector-search API refused
\* the other query, and the response carries the keyword results
W_C9_BothKindsOfFailure ==
    /\ pc = "responded"
    /\ request.path = "/hybrid-search"
    /\ vectorStatus = <<"embed_failed", "pinecone_failed">>
    /\ response.status = 200
    /\ response.results # <<>>
    /\ \A k \in 1..Len(response.results) :
          response.results[k].chunkId \in KeywordHitChunks

\* the required field of the route is there and is what the route expects:
\* a non-empty array of non-empty strings, or a non-empty string
WellFormedRequired(req) ==
    /\ ~BodyThrows(req.body)
    /\ IF req.path = "/hybrid-search"
       THEN /\ req.body.queries.t = "arr"
            /\ req.body.queries.v # <<>>
            /\ \A k \in 1..Len(req.body.queries.v) :
                  req.body.queries.v[k].t = "str" /\ req.body.queries.v[k].v # <<>>
       ELSE req.body.query.t = "str" /\ req.body.query.v # <<>>

NoSearchPerformed ==
    /\ queryList = <<>>
    /\ calls.embeddings = 0
    /\ calls.vectorApi = 0

\* C10: a POST to a search route whose required field is missing or
\* malformed is answered 400 INVALID_REQUEST, never 5xx, and no search is
\* performed for it.
C10_BadFieldIs400 ==
    ( /\ pc \in {"searching", "responded"}
      /\ request.method = "POST"
      /\ request.path \in SearchPaths
      /\ ~WellFormedRequired(request) )
    => /\ NoSearchPerformed
       /\ pc = "responded" =>
             response.status = 400 /\ response.error = "INVALID_REQUEST"

\* C11: every response the worker returns, whatever the route, method and
\* status, carries the three CORS headers (cors stands for Access-Control-
\* Allow-Origin: *, -Allow-Methods: GET, POST, OPTIONS and -Allow-Headers:
\* Content-Type, Authorization together).
C11_EveryResponseHasCors ==
    pc = "responded" => response.cors

(***************************************************************************)
(* tokenizeQuery on its own: every string over TokChars up to MaxQueryLen  *)
(* characters, and the absent query.                                       *)
(***************************************************************************)
\* a lower-case letter, an upper-case letter, a digit, the underscore, the
\* blank and a punctuation mark
TokChars == {"a", "B", "1", "_", " ", "!"}

RECURSIVE StringsUpTo(_, _)
StringsUpTo(chars, n) ==
    IF n = 0 THEN {<<>>}
    ELSE LET shorter == StringsUpTo(chars, n - 1)
         IN  shorter \cup {Append(w, c) : w \in shorter, c \in chars}

TokQueries == {JSUndefined, JSNull} \cup {Str(w) : w \in StringsUpTo(TokChars, MaxQueryLen)}

\* the worker stands still
WorkerIdle ==
    /\ pc = "idle"
    /\ request = NoRequest
    /\ queryList = <<>>
    /\ vectorStatus = <<>>
    /\ vectorResults = <<>>
    /\ keywordStatus = <<>>
    /\ keywordResults = <<>>
    /\ kvTermGets = <<>>
    /\ calls = [embeddings |-> 0, vectorApi |-> 0]
    /\ mergedResults = <<>>
    /\ combinedResults = <<>>
    /\ response = NoResponse

TokInit ==
    /\ WorkerIdle
    /\ UpIdle
    /\ ValIdle
    /\ RsIdle
    /\ FeIdle
    /\ GenIdle
    /\ StIdle
    /\ ExtIdle
    /\ tokQuery \in TokQueries
    /\ tokTokens = <<>>
    /\ tokPc = "ready"

\* tokenizeQuery(query), worker.js 484-494
Tokenize ==
    /\ tokPc = "ready"
    /\ tokTokens' = IF ~Truthy(tokQuery) THEN <<>> ELSE tokenizeQuery(tokQuery.v)
    /\ tokPc' = "returned"
    /\ UNCHANGED <<tokQuery, workerVars, upVars, valVars, rsVars, feVars, genVars, stVars, extVars>>

TokNext == Tokenize

SpecTokenize == TokInit /\ [][TokNext]_vars

\* the characters of [a-z0-9_]
WordChars == LowerChars \cup DigitChars \cup {"_"}

\* the maximal runs of word characters in a string, as <<first, last>>
MaximalRuns(low) ==
    {r \in (1..Len(low)) \X (1..Len(low)) :
        /\ r[1] <= r[2]
        /\ \A k \in r[1]..r[2] : low[k] \in WordChars
        /\ r[1] = 1 \/ low[r[1] - 1] \notin WordChars
        /\ r[2] = Len(low) \/ low[r[2] + 1] \notin WordChars}

\* the runs of at least two characters of the lower-cased string, in the
\* order in which they occur
LongRunsInOrder(chars) ==
    LET low  == [i \in 1..Len(chars) |-> ToLowerChar(chars[i])]
        runs == {r \in MaximalRuns(low) : r[2] - r[1] + 1 >= 2}
    IN  [k \in 1..Cardinality(runs) |->
            LET r == CHOOSE r \in runs : Cardinality({q \in runs : q[1] < r[1]}) = k - 1
            IN  SubSeq(low, r[1], r[2])]

UpEnvs ==
    {[namespaceId |-> ns, wrangler |-> wr, dataDir |-> dir, files |-> fs] :
        ns \in BOOLEAN, wr \in BOOLEAN, dir \in BOOLEAN,
        fs \in [1..Len(KV_FILES) -> FileStates]}

UpInit ==
    /\ WorkerIdle
    /\ TokIdle
    /\ ValIdle
    /\ RsIdle
    /\ FeIdle
    /\ GenIdle
    /\ StIdle
    /\ ExtIdle
    /\ upPc = "checks"
    /\ upEnv \in {e \in UpEnvs : ~e.dataDir => e.files = NoFiles}
    /\ upFile = 1
    /\ totalUploaded = 0
    /\ totalErrors = 0
    /\ bulkPuts = <<>>
    /\ exitCode = -1

UpExit(code) ==
    /\ upPc' = "exited"
    /\ exitCode' = code
    /\ UNCHANGED <<upEnv, upFile, totalUploaded, totalErrors, bulkPuts>>
    /\ UNCHANGED <<workerVars, tokVars, valVars, rsVars, feVars, genVars, stVars, extVars>>

\* upload-kv-data.js 39-44
NoNamespaceId ==
    /\ upPc = "checks"
    /\ ~upEnv.namespaceId
    /\ UpExit(1)

\* upload-kv-data.js 46-52
NoWrangler ==
    /\ upPc = "checks"
    /\ upEnv.namespaceId
    /\ ~upEnv.wrangler
    /\ UpExit(1)

\* upload-kv-data.js 54-59
NoDataDir ==
    /\ upPc = "checks"
    /\ upEnv.namespaceId
    /\ upEnv.wrangler
    /\ ~upEnv.dataDir
    /\ UpExit(1)

\* upload-kv-data.js 61-65
ChecksPass ==
    /\ upPc = "checks"
    /\ upEnv.namespaceId
    /\ upEnv.wrangler
    /\ upEnv.dataDir
    /\ upPc' = "files"
    /\ UNCHANGED <<upEnv, upFile, totalUploaded, totalErrors, bulkPuts, exitCode>>
    /\ UNCHANGED <<workerVars, tokVars, valVars, rsVars, feVars, genVars, stVars, extVars>>

\* one turn of the loop over KV_FILES, upload-kv-data.js 68-114
UploadFile ==
    /\ upPc = "files"
    /\ upFile <= Len(KV_FILES)
    /\ LET found == upEnv.files[upFile]
       IN  IF found = "ok"
           THEN /\ totalUploaded' = totalUploaded + 1
                /\ bulkPuts' = Append(bulkPuts, KV_FILES[upFile])
                /\ UNCHANGED totalErrors
           ELSE /\ totalErrors' = totalErrors + 1
                /\ UNCHANGED <<totalUploaded, bulkPuts>>
    /\ upFile' = upFile + 1
    /\ UNCHANGED <<upPc, upEnv, exitCode>>
    /\ UNCHANGED <<workerVars, tokVars, valVars, rsVars, feVars, genVars, stVars, extVars>>

\* a variant of ExitStatus that always reports success
M_ExitStatus_AlwaysZero(errors) == 0

\* the exit status after the summary, upload-kv-data.js 123-134: the
\* function returns (status 0) or calls process.exit(1)
ExitStatus(errors) == IF errors = 0 THEN 0 ELSE 1

\* upload-kv-data.js 116-134
Summary ==
    /\ upPc = "files"
    /\ upFile > Len(KV_FILES)
    /\ UpExit(ExitStatus(totalErrors))

UpNext ==
    \/ NoNamespaceId
    \/ NoWrangler
    \/ NoDataDir
    \/ ChecksPass
    \/ UploadFile
    \/ Summary

SpecUpload == UpInit /\ [][UpNext]_vars

FailedFiles == {i \in 1..Len(KV_FILES) : upEnv.files[i] # "ok"}

PrechecksPass == upEnv.namespaceId /\ upEnv.wrangler /\ upEnv.dataDir

\* C13 as stated: the full upload exits with a non-zero status if and only
\* if at least one of the four dataset files failed (missing, unreadable or
\* bulk put failed), and at the summary successes plus failures is the
\* number of dataset files.
C13_NonZeroExitIffFileFailed ==
    upPc = "exited" =>
        /\ (exitCode # 0) <=> (FailedFiles # {})
        /\ PrechecksPass => totalUploaded + totalErrors = Len(KV_FILES)

\* C13 amended: once the namespace id, the wrangler tool and the data
\* directory are there, the exit status is non-zero exactly when a dataset
\* file failed, and the counters add up to the number of dataset files;
\* when one of the three is missing the script exits 1 before any file is
\* looked at, whatever the files are.
C13_NonZeroExitIffFileFailedAfterChecks ==
    upPc = "exited" =>
        IF PrechecksPass
        THEN /\ (exitCode # 0) <=> (FailedFiles # {})
             /\ totalErrors = Cardinality(FailedFiles)
             /\ totalUploaded + totalErrors = Len(KV_FILES)
        ELSE /\ exitCode = 1
             /\ totalUploaded = 0 /\ totalErrors = 0 /\ bulkPuts = <<>>

\* one file uploaded and one failure of each kind: exit status 1
W_C13_EachKindOfFailure ==
    /\ upPc = "exited"
    /\ PrechecksPass
    /\ upEnv.files = <<"ok", "missing", "unreadable", "put_fails">>
    /\ totalUploaded = 1
    /\ totalErrors = 3
    /\ exitCode = 1

(***************************************************************************)
(* Validate-only mode, validateKVData of upload-kv-data.js.  A line of a   *)
(* dataset file is known by what the validation can see of it.             *)
(***************************************************************************)
\* a JSON object with a truthy key and a truthy value, one without value,
\* one without key, a line of blanks only, a line that is no JSON
LineKinds == {"ok", "no_value", "no_key", "blank", "bad_json"}

SeqsUpTo(S, n) == UNION {[1..k -> S] : k \in 1..n}

\* content.trim().split('\n') (upload-kv-data.js 150-151): the first and
\* the last line are not blank, but for the empty file, which is one empty
\* line
TrimmedFiles ==
    {ls \in SeqsUpTo(LineKinds, MaxLines) :
        (ls[1] = "blank" \/ ls[Len(ls)] = "blank") => ls = <<"blank">>}

Report(kind, line) == [kind |-> kind, line |-> line]

\* the loop over the first three lines, upload-kv-data.js 153-167, from
\* line i on; JSON.parse throwing ends it in the catch of 169-171
RECURSIVE ScanLines(_, _, _)
ScanLines(lines, i, reports) ==
    IF i > Min(Len(lines), 3) THEN reports
    ELSE CASE lines[i] = "blank"    -> ScanLines(lines, i + 1, reports)
           [] lines[i] = "bad_json" -> Append(reports, Report("failed", 0))
           [] lines[i] = "ok"       -> Append(reports, Report("valid", i))
           [] OTHER -> ScanLines(lines, i + 1, Append(reports, Report("invalid", i)))

ValInit ==
    /\ WorkerIdle
    /\ TokIdle
    /\ UpIdle
    /\ RsIdle
    /\ FeIdle
    /\ GenIdle
    /\ StIdle
    /\ ExtIdle
    /\ valPc = "files"
    /\ valFile = 1
    /\ valLines = <<>>
    /\ valReports = <<>>

\* one turn of the loop over KV_FILES, upload-kv-data.js 141-172, for a
\* file that is not there
ValidateMissingFile ==
    /\ valPc = "files"
    /\ valFile <= Len(KV_FILES)
    /\ valLines' = <<"missing">>
    /\ valReports' = <<Report("missing", 0)>>
    /\ valFile' = valFile + 1
    /\ UNCHANGED <<valPc, workerVars, tokVars, upVars, rsVars, feVars, genVars,
                   stVars, extVars>>

\* one turn of the loop for a file that is there; a file that cannot be
\* read fails like a line that is no JSON
ValidateFile ==
    /\ valPc = "files"
    /\ valFile <= Len(KV_FILES)
    /\ \E lines \in TrimmedFiles :
          /\ valLines' = lines
          /\ valReports' = ScanLines(lines, 1, <<>>)
    /\ valFile' = valFile + 1
    /\ UNCHANGED <<valPc, workerVars, tokVars, upVars, rsVars, feVars, genVars,
                   stVars, extVars>>

\* validateKVData returns, upload-kv-data.js 172, 201-203
ValidationReturns ==
    /\ valPc = "files"
    /\ valFile > Len(KV_FILES)
    /\ valPc' = "returned"
    /\ UNCHANGED <<valFile, valLines, valReports, workerVars, tokVars, upVars, rsVars,
                   feVars, genVars, stVars, extVars>>

ValNext ==
    \/ ValidateMissingFile
    \/ ValidateFile
    \/ ValidationReturns

SpecValidate == ValInit /\ [][ValNext]_vars

Reported(kind) == \E k \in 1..Len(valReports) : valReports[k].kind = kind

\* the first three non-blank lines of the file looked at, all of them when
\* there are fewer
FirstDataLines ==
    LET data == SelectSeq(valLines, LAMBDA l : l # "blank")
    IN  SubSeq(data, 1, Min(Len(data), 3))

\* C14: in validate-only mode a dataset file is reported valid only if each
\* of its first three non-blank lines (all of them when fewer) has both a
\* key and a value; a file whose first data line has no value is reported
\* invalid and is not reported valid.
C14_ValidOnlyIfFirstLinesComplete ==
    (valFile > 1 /\ valLines # <<"missing">>) =>
        /\ Reported("valid") =>
              \A k \in 1..Len(FirstDataLines) : FirstDataLines[k] = "ok"
        /\ (FirstDataLines # <<>> /\ FirstDataLines[1] = "no_value") =>
              Reported("invalid") /\ ~Reported("valid")

(***************************************************************************)
(* The resumable batched upload, uploadRemainingEntries of                 *)
(* upload-remaining (src/unnamed/part_000); continueTermIndicesUpload of   *)
(* scripts/migration/simple-kv-upload.js has the same two loops.  Lines    *)
(* are counted from 1 among the remaining lines (line batchStart + i + 1   *)
(* of the code's indexes).                                                 *)
(***************************************************************************)
\* errorCount > 20 stops the inner loop
ErrorCap == 20

\* the batch sizes of the code: the one uploadAllRemainingData gives for
\* the documents, and the default
BatchSizes == {5, 10}

RsTasks ==
    {[found |-> f, remaining |-> n, batchSize |-> b] :
        f \in BOOLEAN, n \in {0, MaxEntries - 1, MaxEntries}, b \in BatchSizes}

RsInit ==
    /\ WorkerIdle
    /\ TokIdle
    /\ UpIdle
    /\ ValIdle
    /\ FeIdle
    /\ GenIdle
    /\ StIdle
    /\ ExtIdle
    /\ rsPc = "start"
    /\ rsTask \in {t \in RsTasks : ~t.found => t.remaining = 0}
    /\ batchStart = 0
    /\ rsI = 0
    /\ successCount = 0
    /\ errorCount = 0
    /\ rsLastPut = 0
    /\ rsStopped = 0
    /\ rsResult = "none"

rsFrame == UNCHANGED <<workerVars, tokVars, upVars, valVars, feVars, genVars, stVars, extVars>>

\* part_000 12-15 and 74-77: no file, or the file cannot be read
RsNoFile ==
    /\ rsPc = "start"
    /\ ~rsTask.found
    /\ rsPc' = "returned"
    /\ rsResult' = "false"
    /\ UNCHANGED <<rsTask, batchStart, rsI, successCount, errorCount, rsLastPut, rsStopped>>
    /\ rsFrame

\* the head of the outer loop, part_000 29-31, and its end, 70-71
RsBatchOrReturn(start) ==
    IF start < rsTask.remaining
    THEN /\ rsPc' = "entry"
         /\ batchStart' = start
         /\ rsI' = 0
         /\ UNCHANGED rsResult
    ELSE /\ rsPc' = "returned"
         /\ rsResult' = IF successCount > errorCount THEN "true" ELSE "false"
         /\ UNCHANGED <<batchStart, rsI>>

\* part_000 17-29
RsStart ==
    /\ rsPc = "start"
    /\ rsTask.found
    /\ RsBatchOrReturn(0)
    /\ UNCHANGED <<rsTask, successCount, errorCount, rsLastPut, rsStopped>>
    /\ rsFrame

\* batch.length
BatchLength == Min(rsTask.batchSize, rsTask.remaining - batchStart)

\* one turn of the inner loop whose try block runs to its end, part_000
\* 33-52: the entry is put into the store
RsPutEntry ==
    /\ rsPc = "entry"
    /\ rsI < BatchLength
    /\ successCount' = successCount + 1
    /\ rsLastPut' = batchStart + rsI + 1
    /\ rsI' = rsI + 1
    /\ UNCHANGED <<rsPc, rsTask, batchStart, errorCount, rsStopped, rsResult>>
    /\ rsFrame

\* part_000 56
StopsInnerLoop(errors) == errors > ErrorCap

\* one turn of the inner loop whose try block throws (the line is no JSON,
\* the temp file or the put fails), part_000 54-60: break leaves the inner
\* loop only
RsEntryFails ==
    /\ rsPc = "entry"
    /\ rsI < BatchLength
    /\ errorCount' = errorCount + 1
    /\ IF StopsInnerLoop(errorCount + 1)
       THEN /\ rsPc' = "batchEnd"
            /\ rsStopped' = IF rsStopped = 0 THEN batchStart + rsI + 1 ELSE rsStopped
            /\ UNCHANGED rsI
       ELSE /\ rsI' = rsI + 1
            /\ UNCHANGED <<rsPc, rsStopped>>
    /\ UNCHANGED <<rsTask, batchStart, successCount, rsLastPut, rsResult>>
    /\ rsFrame

\* the inner loop ends with the batch, part_000 33
RsBatchDone ==
    /\ rsPc = "entry"
    /\ rsI >= BatchLength
    /\ rsPc' = "batchEnd"
    /\ UNCHANGED <<rsTask, batchStart, rsI, successCount, errorCount, rsLastPut,
                   rsStopped, rsResult>>
    /\ rsFrame

\* the end of a turn of the outer loop, part_000 63-69, and the step to
\* the next batch or to the return
RsNextBatch ==
    /\ rsPc = "batchEnd"
    /\ RsBatchOrReturn(batchStart + rsTask.batchSize)
    /\ UNCHANGED <<rsTask, successCount, errorCount, rsLastPut, rsStopped>>
    /\ rsFrame

RsNext ==
    \/ RsNoFile
    \/ RsStart
    \/ RsPutEntry
    \/ RsEntryFails
    \/ RsBatchDone
    \/ RsNextBatch

SpecResume == RsInit /\ [][RsNext]_vars

\* C15: once more than 20 entries have failed the upload stops: after the
\* 21st failure no further entry of the file is written to the store, in
\* the current batch or in a later one.
C15_NoPutAfterStop ==
    rsStopped > 0 => rsLastPut < rsStopped

(***************************************************************************)
(* The web frontend: the session (useAuth), the Navigation bar of the root *)
(* layout, the page of the route and an AuthGuard around it.  A change of  *)
(* state, the render that follows it and the effects of that render are    *)
(* one step; the navigation router.push asks for is a step of its own.     *)
(* The sign-in page has no guard around it.                                *)
(***************************************************************************)
\* the roles of a user (ActivityFeed.tsx 570)
Roles == {"admin", "analyst", "viewer"}

Routes == {"/", "/admin", "/settings", "/auth/signin"}

\* navigation and adminNavigation (part_001 26-36)
navigation == {"Dashboard", "Reports", "Analytics", "Export", "Generate"}

adminNavigation == {"Admin"}

\* Navigation, part_001 43-45: "User is admin if logged in"
allNavigation(user) ==
    LET isAdmin == user # "none"
    IN  IF isAdmin THEN navigation \cup adminNavigation ELSE navigation

\* the page the route renders; AdminPage (app/admin/page.tsx 5-25,
\* ActivityFeed.tsx 600-682) reads neither the session nor a role
PageOf(path) ==
    CASE path = "/admin"       -> "AdminPanel"
      [] path = "/settings"    -> "Settings"
      [] path = "/auth/signin" -> "SignIn"
      [] OTHER                 -> "Dashboard"

\* a variant of AuthGuardView that shows the children whenever the session
\* is resolved
M_AuthGuardView_NoUserCheck(g, loading, user) ==
    CASE g = "none" -> "none"
      [] loading    -> "loading"
      [] OTHER      -> "children"

\* what AuthGuard returns, AuthGuard.tsx 26-56
AuthGuardView(g, loading, user) ==
    CASE g = "none" -> "none"
      [] loading    -> "loading"
      [] g = "required" /\ user = "none" -> "authRequired"
      [] OTHER      -> "children"

\* the effect of AuthGuard, AuthGuard.tsx 20-24
AuthGuardPushes(g, loading, user) ==
    g # "none" /\ ~loading /\ g = "required" /\ user = "none"

\* the render after a change of state, and the effects it runs
Commit(loading, user, path, g) ==
    /\ guardView' = AuthGuardView(g, loading, user)
    /\ navItems' = allNavigation(user)
    /\ pageContent' = PageOf(path)
    /\ pendingPush' = IF AuthGuardPushes(g, loading, user) THEN "/auth/signin"
                      ELSE pendingPush

feFrame == UNCHANGED <<workerVars, tokVars, upVars, valVars, rsVars, genVars, stVars, extVars>>

\* the first render: the session is resolving
FeInit ==
    /\ WorkerIdle
    /\ TokIdle
    /\ UpIdle
    /\ ValIdle
    /\ RsIdle
    /\ GenIdle
    /\ StIdle
    /\ ExtIdle
    /\ authLoading = TRUE
    /\ authUser = "none"
    /\ pathname \in Routes
    /\ guard \in IF pathname = "/auth/signin" THEN {"none"}
                  ELSE {"none", "required", "optional"}
    /\ guardView = AuthGuardView(guard, TRUE, "none")
    /\ navItems = allNavigation("none")
    /\ pageContent = PageOf(pathname)
    /\ pendingPush = ""
    /\ mobileMenuOpen = FALSE

\* the session is resolved: there is a user or there is none
SessionResolves ==
    /\ authLoading
    /\ authLoading' = FALSE
    /\ \E u \in Roles \cup {"none"} :
          /\ authUser' = u
          /\ Commit(FALSE, u, pathname, guard)
    /\ UNCHANGED <<pathname, guard, mobileMenuOpen>>
    /\ feFrame

\* a user signs in on the sign-in page
SignIn ==
    /\ ~authLoading
    /\ authUser = "none"
    /\ pathname = "/auth/signin"
    /\ \E u \in Roles :
          /\ authUser' = u
          /\ Commit(FALSE, u, pathname, guard)
    /\ UNCHANGED <<authLoading, pathname, guard, mobileMenuOpen>>
    /\ feFrame

\* signOut(), part_001 126-132
SignOut ==
    /\ ~authLoading
    /\ authUser # "none"
    /\ authUser' = "none"
    /\ Commit(FALSE, "none", pathname, guard)
    /\ UNCHANGED <<authLoading, pathname, guard, mobileMenuOpen>>
    /\ feFrame

\* the visitor follows a link or enters an address
Navigate ==
    /\ \E path \in Routes :
       \E g \in IF path = "/auth/signin" THEN {"none"}
                 ELSE {"none", "required", "optional"} :
          /\ pathname' = path
          /\ guard' = g
          /\ Commit(authLoading, authUser, path, g)
    /\ mobileMenuOpen' = FALSE
    /\ UNCHANGED <<authLoading, authUser>>
    /\ feFrame

\* the button of the "Authentication Required" view, AuthGuard.tsx 45-50
ClickSignIn ==
    /\ guardView = "authRequired"
    /\ pendingPush' = "/auth/signin"
    /\ UNCHANGED <<authLoading, authUser, pathname, guard, guardView, navItems,
                   pageContent, mobileMenuOpen>>
    /\ feFrame

\* the router shows the route it was pushed
RouterNavigates ==
    /\ pendingPush # ""
    /\ pathname' = pendingPush
    /\ guard' = "none"
    /\ guardView' = "none"
    /\ navItems' = allNavigation(authUser)
    /\ pageContent' = PageOf(pendingPush)
    /\ pendingPush' = ""
    /\ UNCHANGED <<authLoading, authUser, mobileMenuOpen>>
    /\ feFrame

\* the mobile menu button, part_001 94-105
ToggleMobileMenu ==
    /\ mobileMenuOpen' = ~mobileMenuOpen
    /\ UNCHANGED <<authLoading, authUser, pathname, guard, guardView, navItems,
                   pageContent, pendingPush>>
    /\ feFrame

FeNext ==
    \/ SessionResolves
    \/ SignIn
    \/ SignOut
    \/ Navigate
    \/ ClickSignIn
    \/ RouterNavigates
    \/ ToggleMobileMenu

SpecFrontend == FeInit /\ [][FeNext]_vars

\* C16: the Admin navigation entry and the admin panel content are shown
\* only to a signed-in user who holds the administrator role; never to a
\* signed-in user without it, nor to a signed-out visitor.
C16_AdminOnlyForAdministrators ==
    ("Admin" \in navItems \/ pageContent = "AdminPanel") =>
        (~authLoading /\ authUser = "admin")

\* C17: AuthGuard with requireAuth renders its children only when the
\* session has finished resolving and a user is present; while the session
\* is resolving it renders the loading placeholder; whenever the session is
\* resolved with no user, a navigation to /auth/signin has been asked for
\* and the children are not rendered.
C17_GuardRendersChildrenOnlyWithUser ==
    guard = "required" =>
        /\ guardView = "children" => (~authLoading /\ authUser # "none")
        /\ authLoading => guardView = "loading"
        /\ (~authLoading /\ authUser = "none") =>
              /\ guardView = "authRequired"
              /\ pendingPush = "/auth/signin"

\* the session of a guarded page resolved with no user: the guard shows
\* "Authentication Required" and has asked for the sign-in page
W_C17_RedirectAsked ==
    /\ guard = "required"
    /\ ~authLoading
    /\ authUser = "none"
    /\ guardView = "authRequired"
    /\ pendingPush = "/auth/signin"

(***************************************************************************)
(* The generation form, GeneratePage (src/unnamed/part_002), with the      *)
(* mutation of the query library behind it: a failed request is retried    *)
(* as lib/providers.tsx sets it.  api.createReport is not in src/: a       *)
(* request succeeds with a report id or fails.                             *)
(***************************************************************************)
\* String.prototype.trim
RECURSIVE TrimStart(_)
TrimStart(chars) ==
    IF chars # <<>> /\ Head(chars) \in SpaceChars THEN TrimStart(Tail(chars)) ELSE chars

Trim(chars) == Reverse(TrimStart(Reverse(TrimStart(chars))))

\* exampleQueries, part_002 39-48 (two of them)
exampleQueries == { <<"S", "t", "e", "a", "l", "C">>, <<"A", "n", "y", "D", "e", "s", "k">> }

\* what the visitor can type as the target
TypedNames == StringsUpTo({" ", "a"}, MaxNameLen)

\* analysisTypeOptions, part_002 33-37
analysisTypes == {"comprehensive", "quick", "custom"}

ReportIds == {"r1", "r2"}

\* mutations: retry: 1 (lib/providers.tsx 24-27)
MutationRetry == 1

genFrame == UNCHANGED <<workerVars, tokVars, upVars, valVars, rsVars, feVars, stVars, extVars>>

\* part_002 51-56
GenInit ==
    /\ WorkerIdle
    /\ TokIdle
    /\ UpIdle
    /\ ValIdle
    /\ RsIdle
    /\ FeIdle
    /\ StIdle
    /\ ExtIdle
    /\ formData = [tool_name |-> <<>>, enable_ml_guidance |-> TRUE,
                   analysis_type |-> "comprehensive"]
    /\ genStatus = "idle"
    /\ genInFlight = <<>>
    /\ genFailureCount = 0
    /\ genPush = ""

\* const isLoading = generateMutation.isPending, part_002 75
isLoading == genStatus = "pending"

\* const error = generateMutation.error, part_002 76: the inline error
ErrorShown == genStatus = "error"

\* the page is shown
GenMounted == genStatus \in {"idle", "pending", "success", "error"}

\* the target input, part_002 104-112, and the example buttons, 70-72 and
\* 196-219; all are disabled while isLoading
SetToolName ==
    /\ GenMounted
    /\ ~isLoading
    /\ \E name \in TypedNames \cup exampleQueries :
          formData' = [formData EXCEPT !.tool_name = name]
    /\ UNCHANGED <<genStatus, genInFlight, genFailureCount, genPush>>
    /\ genFrame

\* the analysis type select, part_002 114-122
SetAnalysisType ==
    /\ GenMounted
    /\ ~isLoading
    /\ \E type \in analysisTypes :
          formData' = [formData EXCEPT !.analysis_type = type]
    /\ UNCHANGED <<genStatus, genInFlight, genFailureCount, genPush>>
    /\ genFrame

\* the ML guidance checkbox, part_002 124-145
ToggleMlGuidance ==
    /\ GenMounted
    /\ ~isLoading
    /\ formData' = [formData EXCEPT !.enable_ml_guidance = ~formData.enable_ml_guidance]
    /\ UNCHANGED <<genStatus, genInFlight, genFailureCount, genPush>>
    /\ genFrame

\* !formData.tool_name.trim(), part_002 66 and 168
IsBlank(name) == Trim(name) = <<>>

\* the form is submitted (the button, or Enter in the target input, both
\* disabled while isLoading): handleSubmit, part_002 64-69
Submit ==
    /\ GenMounted
    /\ ~isLoading
    /\ IF IsBlank(formData.tool_name)
       THEN UNCHANGED <<genStatus, genInFlight, genFailureCount>>
       ELSE /\ genStatus' = "pending"
            /\ genInFlight' = Append(genInFlight, formData)
            /\ genFailureCount' = 0
    /\ UNCHANGED <<formData, genPush>>
    /\ genFrame

\* the request succeeds: onSuccess, part_002 58-62
RequestSucceeds ==
    /\ genStatus = "pending"
    /\ \E id \in ReportIds : genPush' = <<"/reports", id>>
    /\ genStatus' = "success"
    /\ genInFlight' = <<>>
    /\ UNCHANGED <<formData, genFailureCount>>
    /\ genFrame

\* the request fails: it is sent again while retries are left, and the
\* mutation ends in error after that (part_002 147-162 shows the error)
RequestFails ==
    /\ genStatus = "pending"
    /\ IF genFailureCount < MutationRetry
       THEN /\ genFailureCount' = genFailureCount + 1
            /\ UNCHANGED <<genStatus, genInFlight>>
       ELSE /\ genStatus' = "error"
            /\ genInFlight' = <<>>
            /\ UNCHANGED genFailureCount
    /\ UNCHANGED <<formData, genPush>>
    /\ genFrame

\* the router shows the report it was pushed; the form is gone
RouterShowsReport ==
    /\ GenMounted
    /\ genPush # ""
    /\ genStatus' = "left"
    /\ genInFlight' = <<>>
    /\ UNCHANGED <<formData, genFailureCount, genPush>>
    /\ genFrame

GenNext ==
    \/ SetToolName
    \/ SetAnalysisType
    \/ ToggleMlGuidance
    \/ Submit
    \/ RequestSucceeds
    \/ RequestFails
    \/ RouterShowsReport

SpecGenerate == GenInit /\ [][GenNext]_vars

\* while submitting, one create-report request carrying the form's data is
\* under way and the target is not blank; otherwise none is
SubmittingHasOneRequest ==
    /\ isLoading => (genInFlight = <<formData>> /\ Trim(formData.tool_name) # <<>>)
    /\ ~isLoading => genInFlight = <<>>

\* the steps of the form's state machine
GenerateSteps ==
    /\ (~isLoading /\ isLoading') =>
          /\ genStatus \in {"idle", "error"}
          /\ Trim(formData.tool_name) # <<>>
          /\ genInFlight' = <<formData>>
    /\ isLoading =>
          /\ formData' = formData
          /\ genStatus' \in {"pending", "success", "error"}
          /\ genInFlight' \in {genInFlight, <<>>}
    /\ (isLoading /\ genStatus' = "success") =>
          \E id \in ReportIds : genPush' = <<"/reports", id>>
    /\ (isLoading /\ genStatus' = "error") =>
          /\ ErrorShown'
          /\ formData' = Head(genInFlight)
          /\ genPush' = genPush

\* C18: the generation form enters submitting, and sends a create-report
\* request, only from idle (with or without an error shown) on a submit
\* whose target is not blank after trimming; on success it navigates to
\* /reports/<report_id>; on failure it shows the inline error, is idle again
\* and leaves tool_name, analysis_type and the ML-guidance toggle as
\* entered; while submitting no second submission is started.
C18_GenerationFormStateMachine ==
    /\ []SubmittingHasOneRequest
    /\ [][GenerateSteps]_vars

(***************************************************************************)
(* The settings page, Settings (frontend/src/app/settings/page.tsx), for a *)
(* signed-in user, and the user's row of user_profiles behind it.          *)
(***************************************************************************)
\* 'sk-ant-', settings/page.tsx 65
KeyPrefix == <<"s", "k", "-", "a", "n", "t", "-">>

\* String.prototype.startsWith
StartsWith(chars, prefix) ==
    Len(chars) >= Len(prefix) /\ SubSeq(chars, 1, Len(prefix)) = prefix

\* what the user can have in the input: nothing, two keys with the prefix,
\* the prefix alone, a key of another kind, a key with a blank before it
KeyInputs ==
    { <<>>, KeyPrefix \o <<"1">>, KeyPrefix \o <<"2">>, KeyPrefix, <<"s", "k", "-", "1">>,
      <<" ">> \o KeyPrefix \o <<"1">> }

\* the rows the page can find: none, one without key, one with a key
StoredProfiles ==
    { [row |-> FALSE, key |-> <<>>], [row |-> TRUE, key |-> <<>>],
      [row |-> TRUE, key |-> KeyPrefix \o <<"1">>] }

MsgNone == ""
MsgInvalidFormat == "Error: Invalid Anthropic API key format"
MsgUpsertError == "Error: upsert refused"
MsgSaved == "API key saved successfully"
MsgFailed == "Failed to save API key"

stFrame == UNCHANGED <<workerVars, tokVars, upVars, valVars, rsVars, feVars, genVars,
                       extVars>>

\* the page is mounted with a user: loadUserProfile starts, settings/page.tsx
\* 12-17 and 27-36
StInit ==
    /\ WorkerIdle
    /\ TokIdle
    /\ UpIdle
    /\ ValIdle
    /\ RsIdle
    /\ FeIdle
    /\ GenIdle
    /\ ExtIdle
    /\ apiKey = <<>>
    /\ stLoading = TRUE
    /\ saving = FALSE
    /\ message = MsgNone
    /\ userProfile \in StoredProfiles
    /\ stUpsert = <<>>

\* the select of loadUserProfile returns, settings/page.tsx 38-54: with the
\* row, or with an error or an exception (no row is the error PGRST116)
LoadReturns ==
    /\ stLoading
    /\ \E answers \in BOOLEAN :
          apiKey' = IF answers /\ userProfile.row THEN userProfile.key ELSE apiKey
    /\ stLoading' = FALSE
    /\ UNCHANGED <<saving, message, userProfile, stUpsert>>
    /\ stFrame

\* the input, settings/page.tsx 159-167
SetApiKey ==
    /\ ~stLoading
    /\ \E key \in KeyInputs : apiKey' = key
    /\ UNCHANGED <<stLoading, saving, message, userProfile, stUpsert>>
    /\ stFrame

\* a variant of InvalidFormat that accepts every key
M_InvalidFormat_Never(key) == FALSE

\* apiKey && !apiKey.startsWith('sk-ant-'), settings/page.tsx 65
InvalidFormat(key) == key # <<>> /\ ~StartsWith(key, KeyPrefix)

\* the Save button (disabled while saving), saveApiKey up to its await,
\* settings/page.tsx 57-76 and 85-87
SaveApiKey ==
    /\ ~stLoading
    /\ ~saving
    /\ IF InvalidFormat(apiKey)
       THEN /\ message' = MsgInvalidFormat
            /\ UNCHANGED <<saving, stUpsert>>
       ELSE /\ message' = MsgNone
            /\ saving' = TRUE
            /\ stUpsert' = Append(stUpsert, [entered |-> apiKey, written |-> apiKey])
    /\ UNCHANGED <<apiKey, stLoading, userProfile>>
    /\ stFrame

\* the upsert returns, settings/page.tsx 78-87: done, refused, or it throws
UpsertReturns ==
    /\ stUpsert # <<>>
    /\ \E outcome \in {"ok", "error", "throws"} :
          /\ userProfile' = IF outcome = "ok"
                            THEN [row |-> TRUE, key |-> Head(stUpsert).written]
                            ELSE userProfile
          /\ message' = CASE outcome = "ok"    -> MsgSaved
                           [] outcome = "error" -> MsgUpsertError
                           [] OTHER             -> MsgFailed
    /\ stUpsert' = Tail(stUpsert)
    /\ saving' = FALSE
    /\ UNCHANGED <<apiKey, stLoading>>
    /\ stFrame

StNext ==
    \/ LoadReturns
    \/ SetApiKey
    \/ SaveApiKey
    \/ UpsertReturns

SpecSettings == StInit /\ [][StNext]_vars

\* the key is lacking the required prefix
LacksPrefix(key) ==
    key # <<>> /\ \E k \in 1..Len(KeyPrefix) : (Len(key) < k \/ key[k] # KeyPrefix[k])

\* no upsert under way and no stored row holds a key lacking the prefix
NoKeyWithoutPrefixWritten ==
    /\ \A k \in 1..Len(stUpsert) : ~LacksPrefix(stUpsert[k].written)
    /\ ~LacksPrefix(userProfile.key)

\* a Save with a key lacking the prefix issues no upsert, shows the error
\* message, and leaves the input and the stored row as they are
BadKeyIsRefused ==
    (SaveApiKey /\ LacksPrefix(apiKey)) =>
        /\ stUpsert' = stUpsert
        /\ message' = MsgInvalidFormat
        /\ apiKey' = apiKey
        /\ userProfile' = userProfile
        /\ saving' = FALSE

\* C19: saving settings never writes a key that lacks the required prefix:
\* when the entered key is non-empty and does not begin with "sk-ant-",
\* saveApiKey issues no upsert, shows an error message, leaves the entered
\* key in the input and leaves the stored profile unchanged.
C19_KeyWithoutPrefixIsNotSaved ==
    /\ []NoKeyWithoutPrefixWritten
    /\ [][BadKeyIsRefused]_vars

\* a key of another kind was refused: the message is shown, the key is still
\* in the input, nothing is under way and the stored key is the old one
W_C19_BadKeyRefused ==
    /\ apiKey = <<"s", "k", "-", "1">>
    /\ message = MsgInvalidFormat
    /\ ~saving
    /\ stUpsert = <<>>
    /\ userProfile = [row |-> TRUE, key |-> KeyPrefix \o <<"1">>]

\* C20: the AI-provider API key is stored encrypted: the value written to
\* the user's profile row for a key the user saves is an encrypted form of
\* the key, never the entered plaintext.
C20_StoredKeyIsNotThePlaintext ==
    \A k \in 1..Len(stUpsert) :
        stUpsert[k].entered # <<>> => stUpsert[k].written # stUpsert[k].entered

(***************************************************************************)
(* Quality badges: frontend/src/lib/utils.ts, components/ui/Badge.tsx and  *)
(* the pages that render a report's quality_score.  A score is a number in *)
(* hundredths (399 is 3.99) or NaN.                                        *)
(***************************************************************************)

NaN == [t |-> "nan", v |-> <<>>]

Scores == {Num(n) : n \in (0 - MaxBelowZero)..MaxScore} \cup {NaN}

\* score >= k of JavaScript: false when score is NaN
ScoreGE(score, k) == score.t = "num" /\ score.v[1] >= k

M_getQualityBadgeVariant_Exclusive(score) ==
    IF ScoreGE(score, 401) THEN "success"
    ELSE IF ScoreGE(score, 301) THEN "info"
    ELSE IF ScoreGE(score, 201) THEN "warning"
    ELSE "error"

\* getQualityBadgeVariant(score), utils.ts 113-118
getQualityBadgeVariant(score) ==
    IF ScoreGE(score, 400) THEN "success"
    ELSE IF ScoreGE(score, 300) THEN "info"
    ELSE IF ScoreGE(score, 200) THEN "warning"
    ELSE "error"

\* formatQualityScore(score), utils.ts 43-75: the two classes returned
formatQualityScore(score) ==
    IF ScoreGE(score, 400)
    THEN [color |-> "text-green-800", bgColor |-> "bg-green-100"]
    ELSE IF ScoreGE(score, 300)
    THEN [color |-> "text-blue-800", bgColor |-> "bg-blue-100"]
    ELSE IF ScoreGE(score, 200)
    THEN [color |-> "text-yellow-800", bgColor |-> "bg-yellow-100"]
    ELSE [color |-> "text-red-800", bgColor |-> "bg-red-100"]

\* badgeVariants of Badge.tsx 13-19: the classes of each variant
badgeVariants ==
    [success |-> [color |-> "text-green-800", bgColor |-> "bg-green-100"],
     warning |-> [color |-> "text-yellow-800", bgColor |-> "bg-yellow-100"],
     error   |-> [color |-> "text-red-800", bgColor |-> "bg-red-100"],
     info    |-> [color |-> "text-blue-800", bgColor |-> "bg-blue-100"]]

Bands == {"success", "info", "warning", "error"}

\* the inline conditional of the report list (part_003 538-541), of the
\* dashboard (ActivityFeed.tsx 423-427) and of the export page (323-326)
InlineVariant(score) ==
    IF ScoreGE(score, 400) THEN "success"
    ELSE IF ScoreGE(score, 300) THEN "info"
    ELSE IF ScoreGE(score, 200) THEN "warning"
    ELSE "error"

\* report detail, part_003 98-102: `report.quality_score || 0` first
DetailVariant(score) ==
    LET qualityScore == IF score.t = "num" /\ score.v # <<0>> THEN score ELSE Num(0)
    IN  InlineVariant(qualityScore)

QsInit ==
    /\ WorkerIdle
    /\ TokIdle
    /\ UpIdle
    /\ ValIdle
    /\ RsIdle
    /\ FeIdle
    /\ GenIdle
    /\ StIdle
    /\ TfIdle
    /\ DpIdle
    /\ CcIdle
    /\ qsPc = "ready"
    /\ qsScore \in Scores
    /\ qsBands = <<>>

\* one render of every site with the same score
RenderBadges ==
    /\ qsPc = "ready"
    /\ qsBands' = [utility   |-> getQualityBadgeVariant(qsScore),
                   formatted |-> formatQualityScore(qsScore),
                   list      |-> InlineVariant(qsScore),
                   detail    |-> DetailVariant(qsScore),
                   dashboard |-> InlineVariant(qsScore),
                   export    |-> InlineVariant(qsScore)]
    /\ qsPc' = "rendered"
    /\ UNCHANGED <<qsScore, workerVars, tokVars, upVars, valVars, rsVars, feVars,
                   genVars, stVars, tfVars, dpVars, ccVars>>

QsNext == RenderBadges

SpecQuality == QsInit /\ [][QsNext]_vars

\* the band the thresholds of the mapping give: lower edges inclusive
BandOf(score) ==
    IF score.t # "num" THEN "error"
    ELSE CASE score.v[1] >= 400 -> "success"
           [] score.v[1] >= 300 /\ score.v[1] < 400 -> "info"
           [] score.v[1] >= 200 /\ score.v[1] < 300 -> "warning"
           [] score.v[1] < 200 -> "error"

\* C21: for every quality score getQualityBadgeVariant returns success iff
\* score >= 4.0, info iff 3.0 <= score < 4.0, warning iff 2.0 <= score < 3.0
\* and error otherwise, and formatQualityScore and the inline computations
\* of the report list, report detail, dashboard and export pages select the
\* same band for the same score.
C21_SameBandEverywhere ==
    qsPc = "rendered" =>
        /\ qsBands.utility = BandOf(qsScore)
        /\ qsBands.formatted = badgeVariants[qsBands.utility]
        /\ qsBands.list = qsBands.utility
        /\ qsBands.detail = qsBands.utility
        /\ qsBands.dashboard = qsBands.utility
        /\ qsBands.export = qsBands.utility

\* a score on the lower edge of a band was rendered in that band
W_C21_LowerEdgeInclusive ==
    /\ qsPc = "rendered"
    /\ qsScore = Num(400)
    /\ qsBands.utility = "success"
    /\ qsBands.detail = "success"
    /\ qsBands.formatted.color = "text-green-800"

(***************************************************************************)
(* Provisioning: terraform/variables.tf, the input variables and the       *)
(* bucket lifecycle rule and database instance declared from them.  An     *)
(* input is <<>> when terraform.tfvars does not set it, <<v>> when it does.*)
(***************************************************************************)

\* the `default` of each variable block, variables.tf 41-138
VariableDefault ==
    [s3_lifecycle_transition_ia_days      |-> 30,
     s3_lifecycle_transition_glacier_days |-> 90,
     s3_lifecycle_expiration_days         |-> 2555,
     db_instance_class                    |-> "db.t3.micro",
     db_allocated_storage                 |-> 20,
     enable_deletion_protection           |-> FALSE]

\* var.<name>: the value set, else the default
Var(inputs, name) ==
    IF inputs[name] = <<>> THEN VariableDefault[name] ELSE inputs[name][1]

\* the instance classes of the `contains` of variables.tf 47-50
InstanceClasses ==
    {"db.t3.micro", "db.t3.small", "db.t3.medium", "db.t3.large",
     "db.t3.xlarge", "db.t3.2xlarge", "db.r5.large", "db.r5.xlarge"}

\* the `validation` blocks of the six variables
ValidationPasses(inputs) ==
    /\ Var(inputs, "s3_lifecycle_transition_ia_days") >= 30
    /\ Var(inputs, "s3_lifecycle_transition_glacier_days") >= 90
    /\ Var(inputs, "s3_lifecycle_expiration_days") >= 365
    /\ Var(inputs, "db_instance_class") \in InstanceClasses
    /\ Var(inputs, "db_allocated_storage") >= 20
    /\ Var(inputs, "db_allocated_storage") <= 16384

\* the arguments of aws_s3_bucket_lifecycle_configuration (variables.tf
\* 337-360) and of aws_db_instance (411-458) that the inputs are about
Resources(inputs) ==
    [transition_ia_days      |-> 30,
     transition_glacier_days |-> 90,
     expiration_days         |-> 2555,
     instance_class          |-> "db.t3.micro",
     allocated_storage       |-> 20,
     deletion_protection     |-> FALSE]

TfInputs ==
    [s3_lifecycle_transition_ia_days      : {<<>>, <<29>>, <<30>>, <<45>>},
     s3_lifecycle_transition_glacier_days : {<<>>, <<89>>, <<90>>, <<120>>},
     s3_lifecycle_expiration_days         : {<<>>, <<364>>, <<365>>, <<2555>>},
     db_instance_class                    : {<<>>, <<"db.t3.micro">>, <<"db.t3.small">>,
                                             <<"db.m5.large">>},
     db_allocated_storage                 : {<<>>, <<19>>, <<20>>, <<50>>},
     enable_deletion_protection           : {<<>>, <<FALSE>>, <<TRUE>>}]

TfInit ==
    /\ WorkerIdle
    /\ TokIdle
    /\ UpIdle
    /\ ValIdle
    /\ RsIdle
    /\ FeIdle
    /\ GenIdle
    /\ StIdle
    /\ QsIdle
    /\ DpIdle
    /\ CcIdle
    /\ tfPc = "ready"
    /\ tfvars \in TfInputs
    /\ tfResources = <<>>

tfFrame == UNCHANGED <<workerVars, tokVars, upVars, valVars, rsVars, feVars, genVars,
                       stVars, qsVars, dpVars, ccVars>>

\* a validation block fails: nothing is planned or applied
TfRejects ==
    /\ tfPc = "ready"
    /\ ~ValidationPasses(tfvars)
    /\ tfPc' = "rejected"
    /\ UNCHANGED <<tfvars, tfResources>>
    /\ tfFrame

\* terraform apply with inputs that pass the validation
TfApplies ==
    /\ tfPc = "ready"
    /\ ValidationPasses(tfvars)
    /\ tfResources' = Resources(tfvars)
    /\ tfPc' = "applied"
    /\ UNCHANGED tfvars
    /\ tfFrame

TfNext == TfRejects \/ TfApplies

SpecTerraform == TfInit /\ [][TfNext]_vars

\* C22: the provisioning inputs are effective: for every value accepted by
\* the validation of s3_lifecycle_transition_ia_days,
\* s3_lifecycle_transition_glacier_days, s3_lifecycle_expiration_days,
\* db_instance_class, db_allocated_storage and enable_deletion_protection,
\* the bucket lifecycle rule and the database instance applied use exactly
\* the configured value, and the default when the input is not set.
C22_InputsAreEffective ==
    tfPc = "applied" =>
        /\ tfResources.transition_ia_days
             = Var(tfvars, "s3_lifecycle_transition_ia_days")
        /\ tfResources.transition_glacier_days
             = Var(tfvars, "s3_lifecycle_transition_glacier_days")
        /\ tfResources.expiration_days = Var(tfvars, "s3_lifecycle_expiration_days")
        /\ tfResources.instance_class = Var(tfvars, "db_instance_class")
        /\ tfResources.allocated_storage = Var(tfvars, "db_allocated_storage")
        /\ tfResources.deletion_protection = Var(tfvars, "enable_deletion_protection")

(***************************************************************************)
(* The metadata counts of a /hybrid-search response.                       *)
(***************************************************************************)

\* C27: in every successful /hybrid-search response the metadata counts
\* describe the returned results: totalResults equals the number of
\* returned results and is at most maxResults, hybridResults is at most
\* vectorResults and at most keywordResults, and vectorResults +
\* keywordResults - hybridResults equals totalResults.
C27_CountsDescribeReturnedResults ==
    HybridAnswered =>
        LET m == response.metadata
        IN  /\ m.totalResults = Len(response.results)
            /\ m.totalResults <= maxResultsOf(request.body)
            /\ m.hybridResults <= m.vectorResults
            /\ m.hybridResults <= m.keywordResults
            /\ m.vectorResults + m.keywordResults - m.hybridResults = m.totalResults

(***************************************************************************)
(* Hydration.  In the content store, as in a match's metadata, a field     *)
(* that the record does not have is the empty string or the empty list:    *)
(* formatMetadata gives both the same value.                               *)
(***************************************************************************)

\* the result fields and the record fields formatMetadata reads them from
MetadataFields ==
    [company |-> "company", year |-> "year", mlTechniques |-> "ml_techniques"]

\* the content-store record of the chunk has the field
StoreProvides(chunkId, field) ==
    /\ KVDocData(chunkId).found
    /\ KVDocData(chunkId).metadata[MetadataFields[field]]
          # EmptyMetadata[MetadataFields[field]]

\* C24: after hydration a result's metadata is the previously assembled
\* metadata (from its first vector or keyword hit) overlaid by the
\* content-store metadata: a field the content-store record provides takes
\* the content-store value, and a field it does not provide (including when
\* the record is absent) keeps its previously assembled value.
C24_HydrationOverlaysMetadata ==
    HybridAnswered =>
        LET assembled == MergeQueryResults(<<>>, SearchResults)
        IN  \A n \in 1..Len(mergedResults) : \A field \in DOMAIN MetadataFields :
                LET r == mergedResults[n]
                IN  r.metadata[field] =
                        IF StoreProvides(r.chunkId, field)
                        THEN KVDocData(r.chunkId).metadata[MetadataFields[field]]
                        ELSE assembled[n].metadata[field]

(***************************************************************************)
(* The full upload and operator errors.                                    *)
(***************************************************************************)

\* the run has an operator or configuration error: the namespace id, the
\* bulk-write tool or the dataset directory is missing, or a dataset file is
OperatorError ==
    \/ ~PrechecksPass
    \/ \E i \in 1..Len(KV_FILES) : upEnv.files[i] = "missing"

\* C25: in the full upload an operator or configuration error (missing
\* namespace id, missing bulk-write tool, missing dataset directory or a
\* missing dataset file) makes the run exit non-zero before any write to the
\* key-value store has been issued in that run.
C25_OperatorErrorExitsBeforeAnyWrite ==
    (upPc # "off" /\ OperatorError) =>
        /\ bulkPuts = <<>>
        /\ upPc = "exited" => exitCode # 0

(***************************************************************************)
(* The provisioning deploy wrapper, the bash script at lines 44-139 of     *)
(* frontend/src/lib/providers.tsx.  It runs under `set -e`: a command that *)
(* fails outside a condition ends the script with that command's status.   *)
(***************************************************************************)

\* the key pressed at the prompt; "enter" is the Enter key, "eof" a closed
\* standard input
Keys == {"y", "Y", "n", "N", "j", "enter", "eof"}

\* the commands of the script that can fail under `set -e`
Commands == {"identity", "init", "validate", "plan", "apply", "output"}

DpEnvs ==
    [credentials : BOOLEAN, tfvarsFile : BOOLEAN, key : Keys,
     failing : Commands \cup {"none"}]

DpInit ==
    /\ WorkerIdle
    /\ TokIdle
    /\ UpIdle
    /\ ValIdle
    /\ RsIdle
    /\ FeIdle
    /\ GenIdle
    /\ StIdle
    /\ QsIdle
    /\ TfIdle
    /\ CcIdle
    /\ dpPc = "credentials"
    /\ dpEnv \in DpEnvs
    /\ dpReply = ""
    /\ dpLog = <<>>
    /\ dpExit = -1

dpFrame == UNCHANGED <<workerVars, tokVars, upVars, valVars, rsVars, feVars, genVars,
                       stVars, qsVars, tfVars, ccVars>>

\* a step ran: it succeeded and the script goes on, or it failed and the
\* script ends with a non-zero status (exit 1, or `set -e`)
DpStep(step, ok, next) ==
    /\ dpPc = step
    /\ dpLog' = Append(dpLog, [step |-> step, ok |-> ok])
    /\ IF ok THEN dpPc' = next /\ dpExit' = dpExit
             ELSE dpPc' = "exited" /\ dpExit' = 1
    /\ UNCHANGED dpEnv
    /\ dpFrame

\* `if ! aws sts get-caller-identity ...; then ... exit 1`, lines 55-58
CheckCredentials ==
    /\ DpStep("credentials", dpEnv.credentials, "tfvars")
    /\ UNCHANGED dpReply

\* `if [[ ! -f "terraform.tfvars" ]]; then ... exit 1`, lines 61-65
CheckTfvars ==
    /\ DpStep("tfvars", dpEnv.tfvarsFile, "identity")
    /\ UNCHANGED dpReply

\* `aws sts get-caller-identity`, line 69
ShowIdentity ==
    /\ DpStep("identity", dpEnv.failing # "identity", "prompt")
    /\ UNCHANGED dpReply

\* a variant of ReplyAccepted that takes every key but n and N
M_ReplyAccepted_NotNo(reply) == reply \notin {"n", "N"}

\* `[[ $REPLY =~ ^[Yy]$ ]]`, line 81
ReplyAccepted(reply) == reply \in {"y", "Y"}

\* `read -p ... -n 1 -r` and the test of REPLY, lines 78-84: read fails at
\* the end of input; Enter leaves REPLY empty
CostPrompt ==
    /\ dpReply' = IF dpEnv.key \in {"enter", "eof"} THEN "" ELSE dpEnv.key
    /\ DpStep("prompt", dpEnv.key # "eof" /\ ReplyAccepted(dpReply'), "init")

\* `terraform init`, line 88
TerraformInit ==
    /\ DpStep("init", dpEnv.failing # "init", "validate")
    /\ UNCHANGED dpReply

\* `terraform validate`, line 92
TerraformValidate ==
    /\ DpStep("validate", dpEnv.failing # "validate", "plan")
    /\ UNCHANGED dpReply

\* `terraform plan -out=tfplan`, line 96
TerraformPlan ==
    /\ DpStep("plan", dpEnv.failing # "plan", "apply")
    /\ UNCHANGED dpReply

\* `terraform apply tfplan`, line 100
TerraformApply ==
    /\ DpStep("apply", dpEnv.failing # "apply", "output")
    /\ UNCHANGED dpReply

\* `rm -f tfplan` and the four `terraform output` commands, lines 103-126
ShowOutputs ==
    /\ DpStep("output", dpEnv.failing # "output", "done")
    /\ UNCHANGED dpReply

\* the end of the script: status 0
DpDone ==
    /\ dpPc = "done"
    /\ dpPc' = "exited"
    /\ dpExit' = 0
    /\ UNCHANGED <<dpEnv, dpReply, dpLog>>
    /\ dpFrame

DpNext ==
    \/ CheckCredentials
    \/ CheckTfvars
    \/ ShowIdentity
    \/ CostPrompt
    \/ TerraformInit
    \/ TerraformValidate
    \/ TerraformPlan
    \/ TerraformApply
    \/ ShowOutputs
    \/ DpDone

SpecDeploy == DpInit /\ [][DpNext]_vars

\* the steps before apply, in the script's order
GatesBeforeApply ==
    <<"credentials", "tfvars", "identity", "prompt", "init", "validate", "plan">>

ApplyRan == \E k \in 1..Len(dpLog) : dpLog[k].step = "apply"

\* C26: in the deploy wrapper `terraform apply` is executed only after, in
\* this order, the credentials check succeeded, terraform.tfvars was found,
\* the operator answered y or Y to the cost prompt, and init, validate and
\* plan each succeeded; any other answer or any failing step ends the script
\* with a non-zero status without apply having run.
C26_ApplyOnlyAfterGates ==
    /\ \A k \in 1..Len(dpLog) :
          dpLog[k].step = "apply" =>
              /\ k = Len(GatesBeforeApply) + 1
              /\ \A j \in 1..Len(GatesBeforeApply) :
                    dpLog[j] = [step |-> GatesBeforeApply[j], ok |-> TRUE]
              /\ dpEnv.credentials /\ dpEnv.tfvarsFile
              /\ dpEnv.key \in {"y", "Y"} /\ dpReply = dpEnv.key
    /\ (dpPc = "exited" /\ ~ApplyRan) => dpExit # 0
    /\ (dpLog # <<>> /\ ~dpLog[Len(dpLog)].ok) => dpPc = "exited" /\ dpExit # 0

\* apply ran after every gate; and a run was cancelled at the prompt
W_C26_ApplyAfterGates ==
    /\ ApplyRan
    /\ Len(dpLog) = Len(GatesBeforeApply) + 1
    /\ dpReply = "Y"

(***************************************************************************)
(* What the resumable upload reports of a file.                            *)
(***************************************************************************)

\* C28: the resumable upload reports a file as uploaded successfully only if
\* no entry of that file failed to upload and every selected entry was
\* attempted; at the end of a file successCount + errorCount equals the
\* number of entries selected for upload.
C28_SuccessMeansEveryEntryUploaded ==
    (rsPc = "returned" /\ rsTask.found) =>
        /\ successCount + errorCount = rsTask.remaining
        /\ rsResult = "true" =>
              errorCount = 0 /\ successCount = rsTask.remaining

(***************************************************************************)
(* The create-report requests of one submission of the generation form.    *)
(***************************************************************************)

\* the create-report requests sent for the submission under way or just
\* ended: the one mutate sends and one more for every failure that was
\* followed by a retry
RequestsSent ==
    IF genStatus \in {"pending", "success", "error"} THEN 1 + genFailureCount ELSE 0

\* C29: one accepted submission of the generation form causes at most one
\* create-report request to be sent, also when that request fails: a failed
\* generation is reported to the user without the request being sent again
\* automatically.
C29_OneRequestPerSubmission == RequestsSent <= 1

(***************************************************************************)
(* The style of the message of the settings page.                          *)
(***************************************************************************)

\* the characters of the messages saveApiKey sets
MessageText(msg) ==
    CASE msg = MsgInvalidFormat ->
           <<"E", "r", "r", "o", "r", ":", " ", "I", "n", "v", "a", "l", "i",
             "d", " ", "A", "n", "t", "h", "r", "o", "p", "i", "c", " ", "A",
             "P", "I", " ", "k", "e", "y", " ", "f", "o", "r", "m", "a", "t">>
      [] msg = MsgUpsertError ->
           <<"E", "r", "r", "o", "r", ":", " ", "u", "p", "s", "e", "r", "t",
             " ", "r", "e", "f", "u", "s", "e", "d">>
      [] msg = MsgSaved ->
           <<"A", "P", "I", " ", "k", "e", "y", " ", "s", "a", "v", "e", "d",
             " ", "s", "u", "c", "c", "e", "s", "s", "f", "u", "l", "l", "y">>
      [] msg = MsgFailed ->
           <<"F", "a", "i", "l", "e", "d", " ", "t", "o", " ", "s", "a", "v",
             "e", " ", "A", "P", "I", " ", "k", "e", "y">>
      [] OTHER -> <<>>

\* String.prototype.includes on characters
IncludesText(text, pattern) ==
    \E k \in 0..(Len(text) - Len(pattern)) :
        \A j \in 1..Len(pattern) : text[k + j] = pattern[j]

\* settings/page.tsx 193-204: the class of the message, "" when the message
\* is empty and nothing is rendered
MessageClass(msg) ==
    IF MessageText(msg) = <<>> THEN ""
    ELSE IF IncludesText(MessageText(msg), <<"E", "r", "r", "o", "r">>)
         THEN "text-red-600"
         ELSE "text-green-600"

\* the error style after each kind of failed save, the success style only
\* after a save that succeeded
StyleTellsOutcome ==
    /\ message \in {MsgInvalidFormat, MsgUpsertError, MsgFailed} =>
          MessageClass(message) = "text-red-600"
    /\ MessageClass(message) = "text-green-600" => message = MsgSaved

\* a save that ends, refused or after its upsert, leaves saving false and
\* the key in the input
SaveEndsIdle ==
    (UpsertReturns \/ (SaveApiKey /\ InvalidFormat(apiKey))) =>
        /\ ~saving'
        /\ apiKey' = apiKey

\* C30: on the settings page the inline message is rendered in the error
\* style after every failed save (rejected key format, storage error
\* returned by the upsert, or an exception thrown during the save) and in
\* the success style only after a save that succeeded; in every outcome the
\* saving flag returns to false and the entered key stays in the input.
C30_MessageStyleTellsOutcome ==
    /\ []StyleTellsOutcome
    /\ [][SaveEndsIdle]_vars

(***************************************************************************)
(* The concurrent branches of handleHybridSearch, one step per promise     *)
(* that settles.  A Promise.all is an array of slots, <<>> until the       *)
(* promise at that position has settled and <<v>> afterwards.  Queries are *)
(* strings and performVectorSearch catches every failure, so no branch     *)
(* rejects.                                                                *)
(***************************************************************************)

\* a variant of Settle that fills the slots in the order of arrival
M_Settle_InArrivalOrder(slots, i, value) ==
    LET k == CHOOSE j \in 1..Len(slots) :
                 slots[j] = <<>> /\ \A h \in 1..(j - 1) : slots[h] # <<>>
    IN  [slots EXCEPT ![k] = <<value>>]

\* Promise.all (worker.js 243, 285, 653): the value of the promise at
\* position i goes to position i of the result
Settle(slots, i, value) == [slots EXCEPT ![i] = <<value>>]

Settled(slots) == \A j \in 1..Len(slots) : slots[j] # <<>>

\* position i settles while an earlier position of the array is pending
OutOfOrder(slots, i) == \E h \in 1..(i - 1) : slots[h] = <<>>

CcRequests ==
    [queries            : UNION {[1..n -> {Str(t) : t \in HybridQueryTexts}] :
                                    n \in 1..MaxQueries},
     maxResults         : {1, DefaultMaxResults},
     hybridWeights      : {DefaultHybridWeights},
     filters            : {NoFilters, CompanyFilter},
     requireBothMethods : BOOLEAN]

CcInit ==
    /\ WorkerIdle
    /\ TokIdle
    /\ UpIdle
    /\ ValIdle
    /\ RsIdle
    /\ FeIdle
    /\ GenIdle
    /\ StIdle
    /\ QsIdle
    /\ TfIdle
    /\ DpIdle
    /\ ccPc = "searching"
    /\ ccRequest \in CcRequests
    /\ ccAnswers \in [1..Len(ccRequest.queries) -> {"ok", "pinecone_not_ok"}]
    /\ ccInner = [i \in 1..Len(ccRequest.queries) |-> <<<<>>, <<>>>>]
    /\ ccOuter = [i \in 1..Len(ccRequest.queries) |-> <<>>]
    /\ ccMerged = <<>>
    /\ ccContent = <<>>
    /\ ccReordered = FALSE
    /\ ccResponse = <<>>

ccFrame == UNCHANGED <<workerVars, tokVars, upVars, valVars, rsVars, feVars, genVars,
                       stVars, qsVars, tfVars, dpVars>>

\* performVectorSearch of query i settles (worker.js 286)
VectorSettles(i) ==
    /\ ccPc = "searching"
    /\ ccInner[i][1] = <<>>
    /\ ccInner' = [ccInner EXCEPT ![i] =
          Settle(@, 1, performVectorSearch(ccRequest.queries[i], ccRequest.maxResults,
                                           ccRequest.filters, ccAnswers[i]).results)]
    /\ ccReordered' = (ccReordered \/ OutOfOrder(ccInner[i], 1))
    /\ UNCHANGED <<ccPc, ccRequest, ccAnswers, ccOuter, ccMerged, ccContent, ccResponse>>
    /\ ccFrame

\* performKeywordSearch of query i settles (worker.js 287)
KeywordSettles(i) ==
    /\ ccPc = "searching"
    /\ ccInner[i][2] = <<>>
    /\ ccInner' = [ccInner EXCEPT ![i] =
          Settle(@, 2, performKeywordSearch(ccRequest.queries[i], ccRequest.maxResults,
                                            ccRequest.filters))]
    /\ ccReordered' = (ccReordered \/ OutOfOrder(ccInner[i], 2))
    /\ UNCHANGED <<ccPc, ccRequest, ccAnswers, ccOuter, ccMerged, ccContent, ccResponse>>
    /\ ccFrame

\* performHybridSearchForQuery of query i returns (worker.js 285-294)
QuerySettles(i) ==
    /\ ccPc = "searching"
    /\ ccOuter[i] = <<>>
    /\ Settled(ccInner[i])
    /\ ccOuter' = Settle(ccOuter, i,
                         [query          |-> ccRequest.queries[i],
                          vectorResults  |-> ccInner[i][1][1],
                          keywordResults |-> ccInner[i][2][1]])
    /\ ccReordered' = (ccReordered \/ OutOfOrder(ccOuter, i))
    /\ UNCHANGED <<ccPc, ccRequest, ccAnswers, ccInner, ccMerged, ccContent, ccResponse>>
    /\ ccFrame

\* combineSearchResults up to the content fetches (worker.js 592-652)
MergeAndFetch ==
    /\ ccPc = "searching"
    /\ Settled(ccOuter)
    /\ ccMerged' = MergeQueryResults(<<>>, [i \in 1..Len(ccOuter) |-> ccOuter[i][1]])
    /\ ccContent' = [k \in 1..Len(ccMerged') |-> <<>>]
    /\ ccPc' = "hydrating"
    /\ UNCHANGED <<ccRequest, ccAnswers, ccInner, ccOuter, ccReordered, ccResponse>>
    /\ ccFrame

\* getDocumentContent of the chunk at position k settles (worker.js 652)
ContentSettles(k) ==
    /\ ccPc = "hydrating"
    /\ ccContent[k] = <<>>
    /\ ccContent' = Settle(ccContent, k, getDocumentContent(ccMerged[k].chunkId))
    /\ ccReordered' = (ccReordered \/ OutOfOrder(ccContent, k))
    /\ UNCHANGED <<ccPc, ccRequest, ccAnswers, ccInner, ccOuter, ccMerged, ccResponse>>
    /\ ccFrame

\* the loop body of worker.js 657-664 with the content fetched for position i
Populate(result, contentData) ==
    [result EXCEPT
       !.content = contentData.content,
       !.enrichedContent = contentData.enrichedContent,
       !.metadata = Spread(@, formatMetadata(contentData.metadata))]

\* the results, counts and order of a response: worker.js 249-265
ResponseOf(combined, maxResults) ==
    LET sorted == SortDesc(combined,
                     [i \in 1..Len(combined) |-> combined[i].scores.hybridScore])
        finalResults == Slice(sorted, maxResults)
    IN  [results  |-> finalResults,
         metadata |->
           [totalResults   |-> Len(finalResults),
            vectorResults  |-> CountMethod(combined, {"vector", "hybrid"}),
            keywordResults |-> CountMethod(combined, {"keyword", "hybrid"}),
            hybridResults  |-> CountMethod(combined, {"hybrid"})]]

\* the rest of combineSearchResults and of handleHybridSearch (worker.js
\* 655-686, 249-269)
CcRespond ==
    /\ ccPc = "hydrating"
    /\ Settled(ccContent)
    /\ LET results == [k \in 1..Len(ccMerged) |->
                         Score(Populate(ccMerged[k], ccContent[k][1]),
                               ccRequest.hybridWeights)]
           combined == IF ccRequest.requireBothMethods
                       THEN SelectSeq(results, LAMBDA r : r.retrievalMethod = "hybrid")
                       ELSE results
       IN  ccResponse' = ResponseOf(combined, ccRequest.maxResults)
    /\ ccPc' = "responded"
    /\ UNCHANGED <<ccRequest, ccAnswers, ccInner, ccOuter, ccMerged, ccContent,
                   ccReordered>>
    /\ ccFrame

CcNext ==
    \/ \E i \in 1..Len(ccOuter) : VectorSettles(i)
    \/ \E i \in 1..Len(ccOuter) : KeywordSettles(i)
    \/ \E i \in 1..Len(ccOuter) : QuerySettles(i)
    \/ MergeAndFetch
    \/ \E k \in 1..Len(ccContent) : ContentSettles(k)
    \/ CcRespond

SpecConcurrent == CcInit /\ [][CcNext]_vars

\* the response when every branch runs to its end before the next starts,
\* in the order of the arrays: the request and the answers alone give it
SequentialResponse ==
    LET searchResults ==
            [i \in 1..Len(ccRequest.queries) |->
                [query          |-> ccRequest.queries[i],
                 vectorResults  |-> performVectorSearch(ccRequest.queries[i],
                                        ccRequest.maxResults, ccRequest.filters,
                                        ccAnswers[i]).results,
                 keywordResults |-> performKeywordSearch(ccRequest.queries[i],
                                        ccRequest.maxResults, ccRequest.filters)]]
    IN  ResponseOf(combineSearchResults(searchResults, ccRequest.hybridWeights,
                                        ccRequest.requireBothMethods),
                   ccRequest.maxResults)

\* C23: for a fixed /hybrid-search request and fixed answers of the
\* embeddings API, the vector-search API and the key-value store, the
\* response (results, scores, retrieval methods, matched terms and order) is
\* the same for every order in which the concurrent branches complete: the
\* per-query searches, the vector and keyword search of one query, and the
\* per-chunk content fetches.
C23_ResponseIndependentOfCompletionOrder ==
    ccPc = "responded" => ccResponse = SequentialResponse

\* two queries answered after branches completed out of the arrays' order,
\* with a chunk both kinds of search hit among several results
W_C23_AnsweredOutOfOrder ==
    /\ ccPc = "responded"
    /\ ccReordered
    /\ Len(ccRequest.queries) = 2
    /\ ccRequest.queries[1] # ccRequest.queries[2]
    /\ Len(ccResponse.results) >= 2
    /\ ccResponse.metadata.hybridResults >= 1

====
